---- MODULE Spec2Model ----
(***************************************************************************)
(* Model of the LKQ scrape-paginate-enrich-normalize pipeline.             *)
(*                                                                         *)
(*   rt   one invocation of retry()            (utils/scraper-utils.js)    *)
(*   col  one run of fetchProductsByCategory / fetchProductsByUrl          *)
(*   enr  one run of fetchProductDetails                                   *)
(*   scr  one run of LkqScraper.scrape                                     *)
(*   ses  one run of initialize() and of the cookie acquisition            *)
(*   api  one call of the catalogue client                                 *)
(*   db   the parts collection and the calls of storeScrapedData           *)
(*   job  the ScraperJob collection, the HTTP API and the runner script    *)
(*   mp   one call of mapProductToPart on an item given field by field     *)
(*                                                                         *)
(* The specifications share the actions:                                   *)
(*   SpecRetry, SpecBackoff  retry() on every bounded operation behaviour  *)
(*   SpecCollect, SpecCollectFair, SpecAttempts  one pagination run        *)
(*   SpecEnrich     fetchProductDetails on every bounded item list         *)
(*   SpecApi        one call of makeApiRequest / getSearchResults          *)
(*   SpecStore      calls of storeScrapedData one after the other          *)
(*   SpecStoreRace  two calls of storeScrapedData running concurrently     *)
(*   SpecJob        jobs of the HTTP API and of the runner script          *)
(*   SpecMap        mapProductToPart on every bounded item                 *)
(*   Spec           scrape() end to end, which runs the collect and enrich *)
(*                  actions for each of its inputs                         *)
(***************************************************************************)
EXTENDS Naturals, Integers, Sequences, FiniteSets

VARIABLES rt, col, enr, scr, ses, api, db, job, mp

vars == <<rt, col, enr, scr, ses, api, db, job, mp>>

(***************************************************************************)
(* Bounds of the model and configuration values.                           *)
(***************************************************************************)
\* largest maxRetries passed to retry() in SpecRetry
MaxRetriesBound == 3
\* largest maxRetries passed to retry() in SpecBackoff
MaxBackoffRetries == 6
\* largest finite maxProducts a scrape run is started with
MaxProductsBound == 3
\* how many items more than `take` an upstream page may carry
MaxExtra == 1
\* longest item list handed to fetchProductDetails in SpecEnrich
MaxEnrichLen == 3
\* largest parallelRequests (concurrency) in SpecEnrich
MaxConcurrency == 3
\* config.scrapers.lkq.batchSize (LKQ_BATCH_SIZE, default 500), scaled down
batchSize == 2
\* `const take = 50` of fetchProductsByUrl, scaled down
take == 2
\* config.scrapers.retryAttempts (SCRAPER_RETRY_ATTEMPTS, default 3), scaled down
retryAttempts == 2
\* `const maxRetries = 3` of fetchProductsByUrl
urlMaxRetries == 3
\* config.scrapers.lkq.parallelRequests (LKQ_PARALLEL_REQUESTS) in Spec
parallelRequests == 2
\* the default `maxProducts = Infinity`: larger than any collected count
Infinity == 1000
\* retry() defaults: initialDelay = 1000, maxDelay = 30000 (milliseconds)
initialDelay == 1000
maxDelay == 30000
\* Math.random() * 1000 lies in [0, 1000): the largest whole jitter
MaxJitter == 999

None == "none"

Min(a, b) == IF a <= b THEN a ELSE b

RECURSIVE Pow2(_)
Pow2(n) == IF n = 0 THEN 1 ELSE 2 * Pow2(n - 1)

(***************************************************************************)
(* retry(fn, maxRetries, initialDelay, maxDelay)                           *)
(*                                                                         *)
(* `outcomes[n]` is what the n-th invocation of fn does: it returns a      *)
(* value ([ok |-> TRUE, value |-> v]) or throws ([ok |-> FALSE,            *)
(* error |-> e]).  `jitter[n]` is the random jitter drawn after the n-th   *)
(* failure.  The result carries what retry did: status "returned" with the *)
(* value or "raised" with the error thrown, and the events in order        *)
(* ("call" for an invocation of fn, "sleep" for a backoff delay).          *)
(***************************************************************************)
RetryContinueOff(retries, maxRetries) == retries < maxRetries

\* while (retries <= maxRetries)
RetryContinue(retries, maxRetries) == retries <= maxRetries

BackoffSkipped(events) == events

\* await new Promise(resolve => setTimeout(resolve, delay))
Backoff(events) == Append(events, "sleep")

BackoffDelayUncapped(retries, jit) == initialDelay * Pow2(retries - 1) + jit

\* Math.min(initialDelay * 2^(retries - 1) + jitter, maxDelay)
BackoffDelay(retries, jit) == Min(initialDelay * Pow2(retries - 1) + jit, maxDelay)

RECURSIVE retryLoop(_, _, _, _, _, _, _)
retryLoop(outcomes, jitter, maxRetries, retries, lastError, events, delays) ==
  IF ~RetryContinue(retries, maxRetries)
  THEN [status |-> "raised", value |-> lastError, events |-> events, delays |-> delays]
  ELSE LET o == outcomes[retries + 1]
           ev == Append(events, "call")
       IN IF o.ok
          THEN [status |-> "returned", value |-> o.value, events |-> ev, delays |-> delays]
          ELSE IF retries + 1 > maxRetries
               THEN [status |-> "raised", value |-> o.error, events |-> ev, delays |-> delays]
               ELSE retryLoop(outcomes, jitter, maxRetries, retries + 1, o.error,
                              Backoff(ev),
                              Append(delays, BackoffDelay(retries + 1, jitter[retries + 1])))

retry(outcomes, jitter, maxRetries) ==
  retryLoop(outcomes, jitter, maxRetries, 0, None, <<>>, <<>>)

RECURSIVE CountOf(_, _)
CountOf(s, x) ==
  IF s = <<>> THEN 0 ELSE (IF s[1] = x THEN 1 ELSE 0) + CountOf(Tail(s), x)

\* number of invocations of fn / of backoff delays in a retry result
Calls(r) == CountOf(r.events, "call")
Sleeps(r) == CountOf(r.events, "sleep")

Undefined == <<"undefined", 0>>

\* the n-th invocation of the operation: it throws its own error or returns
\* its own value
Outcome(fails, n) ==
  IF fails THEN [ok |-> FALSE, error |-> <<"error", n>>]
           ELSE [ok |-> TRUE, value |-> <<"value", n>>]

(***************************************************************************)
(* Upstream catalogue and HTTP responses.                                  *)
(*                                                                         *)
(* A raw item is a record: `src` the input it was listed for, `pos` its    *)
(* offset in the upstream listing, `kind` "full" (carries an id), "noid"   *)
(* (no id / productId) or "null" (a null entry of the data array),         *)
(* `details` the merged detail payload or None when the key is absent,     *)
(* `malformed` whether a field of it has a shape the mapper chokes on      *)
(* (images that are no array, a fitment text that parses to an object).    *)
(* An HTTP response is [status, contentType, body]: status 0 stands for no  *)
(* response at all (timeout, connection error); body is what axios hands   *)
(* over as response.data: kind "empty" for an empty body (''), "page" for  *)
(* a search result with a data array and a count (NoCount when the field   *)
(* is absent), "details" for a detail payload, "other" for any other JSON, *)
(* "doctype" for a text that holds '<!DOCTYPE html>', "htmltag" for a text *)
(* that holds '<html'.                                                     *)
(***************************************************************************)
Kinds == {"full", "noid", "null"}

KindAt(p) == CASE p % 4 = 1 -> "noid" [] p % 4 = 3 -> "null" [] OTHER -> "full"

ItemAt(i, p) ==
  [src |-> i, pos |-> p, kind |-> KindAt(p), malformed |-> (p % 4 = 2), details |-> None]

\* the n items an upstream page starting at offset `skip` carries
PageItems(i, skip, n) == [j \in 1..n |-> ItemAt(i, skip + j - 1)]

NoCount == -1

Body(kind, data, count) == [kind |-> kind, data |-> data, count |-> count]

EmptyBody == Body("empty", <<>>, NoCount)

JsonPage(i, skip, n, count) ==
  [status |-> 200, contentType |-> "application/json", body |-> Body("page", PageItems(i, skip, n), count)]

NoResponse == [status |-> 0, contentType |-> "application/json", body |-> EmptyBody]
ServerError == [status |-> 500, contentType |-> "application/json", body |-> EmptyBody]
HtmlPage == [status |-> 200, contentType |-> "text/html", body |-> Body("htmltag", <<>>, NoCount)]
\* an HTML document served under a JSON content type, and a 400 answered
\* with an HTML page
HtmlDoctype == [status |-> 200, contentType |-> "application/json", body |-> Body("doctype", <<>>, NoCount)]
Html400 == [status |-> 400, contentType |-> "text/html", body |-> Body("htmltag", <<>>, NoCount)]
Html503 == [status |-> 503, contentType |-> "text/html", body |-> Body("htmltag", <<>>, NoCount)]
Empty400 == [status |-> 400, contentType |-> "application/json", body |-> EmptyBody]
DetailsOk == [status |-> 200, contentType |-> "application/json", body |-> Body("details", <<>>, NoCount)]
BadJson == [status |-> 200, contentType |-> "application/json", body |-> Body("other", <<>>, NoCount)]

\* validateStatus: function (status) { return status < 500; }
validateStatus(status) == status < 500

IsHtmlByContentType(resp) == resp.contentType = "text/html"

\* contentType.includes('text/html') || responseStr.includes('<!DOCTYPE html>')
\*   || responseStr.includes('<html')
IsHtml(resp) ==
  \/ resp.contentType = "text/html"
  \/ resp.body.kind = "doctype"
  \/ resp.body.kind = "htmltag"

\* makeApiRequest: axios rejects when there is no response or validateStatus
\* fails; an HTML answer is thrown as an error; otherwise response.data is
\* returned (an empty 400 body is logged and returned as it is).
makeApiRequest(resp) ==
  IF resp.status = 0 \/ ~validateStatus(resp.status)
  THEN [ok |-> FALSE, error |-> "transport"]
  ELSE IF IsHtml(resp)
       THEN [ok |-> FALSE, error |-> "html"]
       ELSE [ok |-> TRUE, value |-> resp.body]

NoJitter == [n \in 1..(retryAttempts + 1) |-> 0]

\* getSearchResults / getProductDetails: retry(() => makeApiRequest(...),
\* config.scrapers.retryAttempts); resps[n] answers the n-th request
getSearchResults(resps) ==
  retry([n \in DOMAIN resps |-> makeApiRequest(resps[n])], NoJitter, retryAttempts)

getProductDetails(resps) ==
  retry([n \in DOMAIN resps |-> makeApiRequest(resps[n])], NoJitter, retryAttempts)

\* getCategoryCounts: the same wrapper; the callback reads response.count, so
\* a falsy body still yields a counts record (''.count is undefined)
getCategoryCounts(resps) ==
  retry([n \in DOMAIN resps |-> makeApiRequest(resps[n])], NoJitter, retryAttempts)

\* the answers to the successive requests of one wrapped call: k failing
\* answers followed by `final`
Plan(k, final) == [n \in 1..(retryAttempts + 1) |-> IF n <= k THEN ServerError ELSE final]

Plans(finals) == {Plan(k, f) : k \in 0..(retryAttempts + 1), f \in finals}

\* truthiness of a response body
Truthy(v) == v.kind # "empty"

(***************************************************************************)
(* Pagination: fetchProductsByCategory and fetchProductsByUrl.             *)
(*                                                                         *)
(* col.pc: "idle" no run, "counts" before the getCategoryCounts call,      *)
(* "loop" at the head of the while loop, "returned" after the return,      *)
(* "raised" when the function threw.  col.requests is the history of the   *)
(* page requests of this run, col.lastPage the last page that was          *)
(* answered with a data array, col.backoffs the number of backoff delays   *)
(* awaited after failed attempts.                                          *)
(***************************************************************************)
Max(a, b) == IF a >= b THEN a ELSE b

\* length of the upstream listing in SpecCollect: room for two full pages
\* and a short one
CatalogSize == 2 * Max(batchSize, take) + 1

\* length of the upstream listing of each input of a scrape run
ListingSize == 3

\* col.lastPage before any page was answered
NoPage == [skip |-> 0, take |-> 0, n |-> -1, count |-> NoCount]

ColIdle ==
  [pc |-> "idle", entry |-> None, src |-> 0, listing |-> 0, maxProducts |-> 0,
   allProducts |-> <<>>, skip |-> 0, hasMore |-> TRUE, consecutiveErrors |-> 0,
   requests |-> <<>>, lastPage |-> NoPage, result |-> <<>>, traced |-> FALSE,
   backoffs |-> 0]

\* the state after the declarations of fetchProductsByCategory (lines
\* 106-110) or fetchProductsByUrl (lines 211-216)
ColStart(entry, src, listing, maxProducts) ==
  [ColIdle EXCEPT !.pc = IF entry = "category" THEN "counts" ELSE "loop",
                  !.entry = entry, !.src = src, !.listing = listing,
                  !.maxProducts = maxProducts]

\* const maxRetries = config.scrapers.retryAttempts  /  const maxRetries = 3
maxRetries(entry) == IF entry = "category" THEN retryAttempts ELSE urlMaxRetries

\* this.batchSize  /  const take = 50
PageSize(entry) == IF entry = "category" THEN batchSize ELSE take

LoopCondNoCeiling(c) ==
  /\ c.hasMore
  /\ Len(c.allProducts) < c.maxProducts

\* while (hasMore && allProducts.length < maxProducts && consecutiveErrors < maxRetries)
LoopCond(c) ==
  /\ c.hasMore
  /\ Len(c.allProducts) < c.maxProducts
  /\ c.consecutiveErrors < maxRetries(c.entry)

TakeWhole(c) == PageSize(c.entry)

\* Math.min(this.batchSize, maxProducts - allProducts.length)  (currentTake)
TakeFor(c) == Min(PageSize(c.entry), c.maxProducts - Len(c.allProducts))

\* response && Array.isArray(response.data)
ValidPage(v) == Truthy(v) /\ v.kind = "page"

\* if (response.count): an absent or zero count is falsy
HasCount(v) == v.count # NoCount /\ v.count # 0

\* hasMore = (skip + take) < totalCount: in fetchProductsByCategory `take` is
\* the size requested in this iteration (line 150), in fetchProductsByUrl it
\* is the constant page size, not currentTake (line 261)
HasMoreByCount(c, tk, totalCount) ==
  IF c.entry = "category" THEN (c.skip + tk) < totalCount
                          ELSE (c.skip + take) < totalCount

HasMoreByFullPageAlways(n, tk) == n > 0

\* hasMore = products.length === take  (=== currentTake)
HasMoreByFullPage(n, tk) == n = tk

NextSkipStuck(skip, tk) == skip

\* skip += take  (+= currentTake)
NextSkip(skip, tk) == skip + tk

TrimNothing(products, maxProducts) == products

\* if (allProducts.length > maxProducts) allProducts = allProducts.slice(0, maxProducts)
Trim(products, maxProducts) ==
  IF Len(products) > maxProducts THEN SubSeq(products, 1, maxProducts) ELSE products

\* the sizes of the data array the upstream may answer a page request
\* (skip, tk) with, for a listing of `listing` items
PageSizes(listing, skip, tk) == 0..Min(tk + MaxExtra, Max(listing - skip, 0))

Counts(listing) == {NoCount} \cup 0..listing

FailingResponses == {NoResponse, ServerError, HtmlPage, Empty400, BadJson}

PageResponses(c, tk) ==
  {JsonPage(c.src, c.skip, n, cnt) : n \in PageSizes(c.listing, c.skip, tk), cnt \in Counts(c.listing)}
    \cup FailingResponses

\* one page call: getSearchResults(category, skip, take) through retry, or
\* makeApiRequest('', params) directly for a URL
PageCalls(c, tk) ==
  IF c.entry = "category"
  THEN {getSearchResults(pl) : pl \in Plans(PageResponses(c, tk))}
  ELSE {LET r == makeApiRequest(resp)
        IN IF r.ok THEN [status |-> "returned", value |-> r.value, events |-> <<"call">>]
                   ELSE [status |-> "raised", value |-> r.error, events |-> <<"call">>]
        : resp \in PageResponses(c, tk)}

\* an entry of col.requests: a page request (skip, take) and how it ended:
\* "failed" (the call threw or the answer had no data array), "empty" (no
\* products) or "page" (n products; counted: the answer carried a count);
\* calls: in a traced run (col.traced), the requests that were sent
\* upstream for it
Request(skip, tk, outcome, n, counted) ==
  [skip |-> skip, take |-> tk, outcome |-> outcome, n |-> n, counted |-> counted,
   calls |-> 0]

PageFailedUncounted(c, tk) ==
  [c EXCEPT !.requests = Append(@, Request(c.skip, tk, "failed", 0, FALSE))]

PageFailedSkips(c, tk) ==
  [c EXCEPT !.consecutiveErrors = @ + 1,
            !.skip = @ + tk,
            !.backoffs = IF c.consecutiveErrors + 1 >= maxRetries(c.entry) THEN @ ELSE @ + 1,
            !.requests = Append(@, Request(c.skip, tk, "failed", 0, FALSE))]

\* the catch block of the loop (lines 170-184 / 281-294): the counter is
\* incremented; at the ceiling the loop is left, else delay(...) is awaited
PageFailed(c, tk) ==
  [c EXCEPT !.consecutiveErrors = @ + 1,
            !.backoffs = IF c.consecutiveErrors + 1 >= maxRetries(c.entry) THEN @ ELSE @ + 1,
            !.requests = Append(@, Request(c.skip, tk, "failed", 0, FALSE))]

ErrorsKept(consecutiveErrors) == consecutiveErrors

\* consecutiveErrors = 0 after a page with products
ErrorsReset(consecutiveErrors) == 0

PageEmptyGoesOn(c, tk, v) ==
  [c EXCEPT !.lastPage = [skip |-> c.skip, take |-> tk, n |-> 0, count |-> v.count],
            !.requests = Append(@, Request(c.skip, tk, "empty", 0, HasCount(v)))]

\* if (products.length === 0) { hasMore = false; break; }
PageEmpty(c, tk, v) ==
  [c EXCEPT !.hasMore = FALSE,
            !.lastPage = [skip |-> c.skip, take |-> tk, n |-> 0, count |-> v.count],
            !.requests = Append(@, Request(c.skip, tk, "empty", 0, HasCount(v)))]

\* the try block of the loop for a data array of n products
PageFetched(c, tk, v) ==
  LET n == Len(v.data)
      page == [skip |-> c.skip, take |-> tk, n |-> n, count |-> v.count]
  IN IF n = 0
     THEN PageEmpty(c, tk, v)
     ELSE [c EXCEPT !.consecutiveErrors = ErrorsReset(@),
                    !.allProducts = @ \o v.data,
                    !.hasMore = IF HasCount(v) THEN HasMoreByCount(c, tk, v.count)
                                               ELSE HasMoreByFullPage(n, tk),
                    !.skip = NextSkip(@, tk),
                    !.lastPage = page,
                    !.requests = Append(@, Request(c.skip, tk, "page", n, HasCount(v)))]

\* one iteration of the while loop
PageStep(c, r) ==
  LET tk == TakeFor(c)
      stepped == IF r.status = "returned" /\ ValidPage(r.value)
                 THEN PageFetched(c, tk, r.value)
                 ELSE PageFailed(c, tk)
  IN [stepped EXCEPT !.requests[Len(c.requests) + 1].calls =
                       IF c.traced THEN Calls(r) ELSE 0]

AbortResultEmpty(c) ==
  IF c.consecutiveErrors >= maxRetries(c.entry) THEN <<>>
  ELSE Trim(c.allProducts, c.maxProducts)

\* the list the function returns once the loop has ended (lines 187-194)
LoopResult(c) == Trim(c.allProducts, c.maxProducts)

\* getCategoryCounts(category) at the head of fetchProductsByCategory: when it
\* throws, the outer catch returns [] (lines 195-198)
CollectCounts ==
  /\ col.pc = "counts"
  /\ \E pl \in Plans({JsonPage(col.src, 0, Min(1, col.listing), col.listing), Empty400, ServerError}) :
       LET r == getCategoryCounts(pl)
       IN col' = IF r.status = "raised"
                 THEN [col EXCEPT !.pc = "returned", !.result = <<>>]
                 ELSE [col EXCEPT !.pc = "loop"]
  /\ UNCHANGED <<rt, enr, scr, ses, api, db, job, mp>>

CollectPage ==
  /\ col.pc = "loop"
  /\ LoopCond(col)
  /\ \E r \in PageCalls(col, TakeFor(col)) : col' = PageStep(col, r)
  /\ UNCHANGED <<rt, enr, scr, ses, api, db, job, mp>>

CollectReturn ==
  /\ col.pc = "loop"
  /\ ~LoopCond(col)
  /\ col' = [col EXCEPT !.pc = "returned", !.result = LoopResult(col)]
  /\ UNCHANGED <<rt, enr, scr, ses, api, db, job, mp>>

\* the states of the pagination state machine
ColState(c) ==
  IF c.pc \notin {"loop", "returned"} THEN None
  ELSE IF c.consecutiveErrors >= maxRetries(c.entry) THEN "ABORTED"
  ELSE IF LoopCond(c) /\ c.pc = "loop" THEN "FETCHING"
  ELSE "DONE"

(***************************************************************************)
(* Detail enrichment: fetchProductDetails(products).                       *)
(*                                                                         *)
(* enr.pc: "idle", "start" at the entry of the function, "for" at the head *)
(* of the loop over the batches (enr.i the next batch), "await" while      *)
(* Promise.all waits for the detail calls of the batch                     *)
(* (enr.inflight holds the positions still pending,                        *)
(* enr.batchResults the values the promises resolved to), "returned".      *)
(***************************************************************************)
RECURSIVE chunkDropTail(_, _)
chunkDropTail(array, size) ==
  IF Len(array) < size THEN <<>>
  ELSE <<SubSeq(array, 1, size)>> \o chunkDropTail(SubSeq(array, size + 1, Len(array)), size)

chunkWhole(array, size) == IF array = <<>> THEN <<>> ELSE <<array>>

\* chunk(array, size): slices array.slice(i, i + size) for i = 0, size, ...
RECURSIVE chunk(_, _)
chunk(array, size) ==
  IF array = <<>> THEN <<>>
  ELSE <<SubSeq(array, 1, Min(size, Len(array)))>>
         \o chunk(SubSeq(array, Min(size, Len(array)) + 1, Len(array)), size)

RECURSIVE Flatten(_)
Flatten(ss) == IF ss = <<>> THEN <<>> ELSE ss[1] \o Flatten(Tail(ss))

EnrIdle ==
  [pc |-> "idle", products |-> <<>>, size |-> 1, batches |-> <<>>, i |-> 0,
   inflight |-> {}, batchResults |-> <<>>, productsWithDetails |-> <<>>,
   pauses |-> 0, calls |-> <<>>, result |-> <<>>]

\* enr.calls[p] follows the detail call of the p-th product: "unstarted",
\* "nocall" (the callback returned without calling), "inflight", then
\* "ok" or "failed"
EnrStart(products, size) ==
  [EnrIdle EXCEPT !.pc = "start", !.products = products, !.size = size,
                  !.calls = [p \in DOMAIN products |-> "unstarted"]]

\* the callback of batch.map up to its first await: a null product throws on
\* product.id and the catch returns it; a product without id is returned at
\* once; otherwise getProductDetails is awaited
NeedsCall(product) == product.kind = "full"

\* how getProductDetails settled for the callback: "failed" when it threw
\* or returned nothing
DetailOutcome(r) == IF r.status = "returned" /\ Truthy(r.value) THEN "ok" ELSE "failed"

EnrichedAnnotated(product, r) ==
  IF r.status = "returned" /\ Truthy(r.value)
  THEN [product EXCEPT !.details = "details"]
  ELSE [product EXCEPT !.details = "error"]

\* what the callback returns once getProductDetails has settled with r
Enriched(product, r) ==
  IF r.status = "returned" /\ Truthy(r.value)
  THEN [product EXCEPT !.details = "details"]
  ELSE product

DetailResponses == {DetailsOk, Empty400, ServerError, HtmlPage}

\* lines 318-326
EnrichBegin ==
  /\ enr.pc = "start"
  /\ enr' = IF Len(enr.products) = 0
            THEN [enr EXCEPT !.pc = "returned", !.result = <<>>]
            ELSE [enr EXCEPT !.pc = "for", !.i = 1,
                             !.batches = chunk(enr.products, enr.size)]
  /\ UNCHANGED <<rt, col, scr, ses, api, db, job, mp>>

\* batch.map(async (product) => ...): every detail call of the batch starts
EnrichLaunch ==
  /\ enr.pc = "for"
  /\ enr.i <= Len(enr.batches)
  /\ LET batch == enr.batches[enr.i]
         base == Len(enr.productsWithDetails)
     IN enr' = [enr EXCEPT !.pc = "await",
                           !.inflight = {j \in DOMAIN batch : NeedsCall(batch[j])},
                           !.batchResults = batch,
                           !.calls = [p \in DOMAIN enr.calls |->
                                        IF p - base \in DOMAIN batch
                                        THEN (IF NeedsCall(batch[p - base])
                                              THEN "inflight" ELSE "nocall")
                                        ELSE enr.calls[p]]]
  /\ UNCHANGED <<rt, col, scr, ses, api, db, job, mp>>

PromiseAllMirrored(batchResults, j, value) ==
  [batchResults EXCEPT ![Len(batchResults) + 1 - j] = value]

\* Promise.all(detailsPromises): the value the j-th promise resolves to is
\* the j-th element of batchResults, whenever it resolves
PromiseAll(batchResults, j, value) == [batchResults EXCEPT ![j] = value]

\* one detail call of the batch settles
EnrichDetail ==
  /\ enr.pc = "await"
  /\ \E j \in enr.inflight :
       \E pl \in Plans(DetailResponses) :
         LET r == getProductDetails(pl)
             p == Len(enr.productsWithDetails) + j
         IN enr' = [enr EXCEPT !.inflight = @ \ {j},
                               !.batchResults = PromiseAll(@, j, Enriched(@[j], r)),
                               !.calls = [q \in DOMAIN enr.calls |->
                                            IF q = p THEN DetailOutcome(r) ELSE enr.calls[q]]]
  /\ UNCHANGED <<rt, col, scr, ses, api, db, job, mp>>

PaceAfterEvery(pauses, i, n) == pauses + 1

\* if (i < batches.length - 1) await randomWait(1500, 3500), for the i-th of
\* n batches counted from one
Pace(pauses, i, n) == IF i < n THEN pauses + 1 ELSE pauses

\* Promise.all resolves: push the batch results, pace before the next batch
EnrichJoin ==
  /\ enr.pc = "await"
  /\ enr.inflight = {}
  /\ LET pushed == enr.productsWithDetails \o enr.batchResults
     IN enr' = [enr EXCEPT !.pc = "for", !.i = @ + 1,
                           !.pauses = Pace(@, enr.i, Len(enr.batches)),
                           !.productsWithDetails = pushed, !.batchResults = <<>>]
  /\ UNCHANGED <<rt, col, scr, ses, api, db, job, mp>>

\* the for loop has run over every batch: return productsWithDetails
EnrichReturn ==
  /\ enr.pc = "for"
  /\ enr.i > Len(enr.batches)
  /\ enr' = [enr EXCEPT !.pc = "returned", !.result = enr.productsWithDetails]
  /\ UNCHANGED <<rt, col, scr, ses, api, db, job, mp>>

(***************************************************************************)
(* Mapping: mapProductToPart and LkqScraper.mapProducts.                   *)
(***************************************************************************)
\* the null mapProductToPart returns for an empty product
NullPart ==
  [null |-> TRUE, source |-> "lkq", ref |-> <<0, 0>>, details |-> None, minimal |-> FALSE]

mapProductToPartDropsMalformed(product) ==
  IF product.kind = "null" \/ product.malformed THEN NullPart
  ELSE [null |-> FALSE, source |-> "lkq", ref |-> <<product.src, product.pos>>,
        details |-> product.details, minimal |-> FALSE]

\* mapProductToPart: null for an empty product, the full record, or, when
\* the mapping throws, the minimal record of its catch (partNumber, name,
\* source, otherParams.rawData with the whole product)
mapProductToPart(product) ==
  IF product.kind = "null" THEN NullPart
  ELSE [null |-> FALSE, source |-> "lkq", ref |-> <<product.src, product.pos>>,
        details |-> product.details, minimal |-> product.malformed]

RECURSIVE FilterBoolean(_)
FilterBoolean(parts) ==
  IF parts = <<>> THEN <<>>
  ELSE (IF parts[1].null THEN <<>> ELSE <<parts[1]>>) \o FilterBoolean(Tail(parts))

\* products.map(product => mapProductToPart(product)).filter(Boolean)
mapProducts(products) ==
  FilterBoolean([j \in DOMAIN products |-> mapProductToPart(products[j])])

(***************************************************************************)
(* LkqScraper.initialize() with extractCookiesWithPuppeteer(baseUrl) and   *)
(* initializeApi().                                                        *)
(*                                                                         *)
(* ses.pc: "idle"; "start" at the entry of initialize; "launch", "page",   *)
(* "cookies", "catch", "finally" inside extractCookiesWithPuppeteer;       *)
(* "extracted" when it has settled (ses.ret the string returned, "unset"   *)
(* when it rejected); "api" before initializeApi; "resolved" or "rejected" *)
(* when initialize has settled.  ses.cookies is this.cookies ("" when none *)
(* is configured), ses.browser "none", "open" or "closed", ses.launches    *)
(* the number of browsers launched, ses.failure the step of the            *)
(* acquisition that failed, ses.probe how the connectivity test ended.     *)
(***************************************************************************)
SesIdle ==
  [pc |-> "idle", cookies |-> "", browser |-> "none", launches |-> 0,
   failure |-> "none", ret |-> "unset", raised |-> FALSE, probe |-> "none"]

SesStart(cookies) == [SesIdle EXCEPT !.pc = "start", !.cookies = cookies]

\* lines 33-64: acquire cookies only if (!this.cookies)
InitializeBegin ==
  /\ ses.pc = "start"
  /\ ses' = [ses EXCEPT !.pc = IF ses.cookies = "" THEN "launch" ELSE "api"]
  /\ UNCHANGED <<rt, col, enr, scr, api, db, job, mp>>

\* browser = await launchBrowser(): puppeteer.launch resolves with a
\* browser or rejects
SessionLaunch ==
  /\ ses.pc = "launch"
  /\ \/ ses' = [ses EXCEPT !.pc = "page", !.browser = "open", !.launches = @ + 1]
     \/ ses' = [ses EXCEPT !.pc = "catch", !.failure = "launch"]
  /\ UNCHANGED <<rt, col, enr, scr, api, db, job, mp>>

\* newPage, setViewport, setUserAgent, setExtraHTTPHeaders, goto, delay and
\* waitForSelector, whose own failure is caught: the page loads or one of
\* the steps rejects (navigation timeout)
SessionNavigate ==
  /\ ses.pc = "page"
  /\ \/ ses' = [ses EXCEPT !.pc = "cookies"]
     \/ ses' = [ses EXCEPT !.pc = "catch", !.failure = "navigation"]
  /\ UNCHANGED <<rt, col, enr, scr, api, db, job, mp>>

\* page.cookies() and return cookieString: cookies found, none found (the
\* empty string is returned), or page.cookies() rejects
SessionCookies ==
  /\ ses.pc = "cookies"
  /\ \/ ses' = [ses EXCEPT !.pc = "finally", !.ret = "name=value"]
     \/ ses' = [ses EXCEPT !.pc = "finally", !.ret = "", !.failure = "nocookies"]
     \/ ses' = [ses EXCEPT !.pc = "catch", !.failure = "cookies"]
  /\ UNCHANGED <<rt, col, enr, scr, api, db, job, mp>>

catchRethrows(se) == [se EXCEPT !.pc = "finally", !.raised = TRUE]

\* catch (error) { ...; return ''; }: the page content preview is taken
\* inside its own try/catch
catchReturn(se) == [se EXCEPT !.pc = "finally", !.ret = ""]

SessionCatch ==
  /\ ses.pc = "catch"
  /\ ses' = catchReturn(ses)
  /\ UNCHANGED <<rt, col, enr, scr, api, db, job, mp>>

closeBrowserOnSuccess(se) ==
  IF se.browser = "open" /\ se.failure = "none" THEN [se EXCEPT !.browser = "closed"] ELSE se

\* finally { if (browser) { await browser.close(); } }
closeBrowser(se) ==
  IF se.browser = "open" THEN [se EXCEPT !.browser = "closed"] ELSE se

SessionFinally ==
  /\ ses.pc = "finally"
  /\ ses' = [closeBrowser(ses) EXCEPT !.pc = "extracted"]
  /\ UNCHANGED <<rt, col, enr, scr, api, db, job, mp>>

\* lines 65-77: this.cookies = await extractCookiesWithPuppeteer(...) inside
\* try/catch; a rejection is logged and this.cookies stays as it was
InitializeCookies ==
  /\ ses.pc = "extracted"
  /\ ses' = [ses EXCEPT !.pc = "api",
                        !.cookies = IF ses.raised THEN @ ELSE ses.ret]
  /\ UNCHANGED <<rt, col, enr, scr, api, db, job, mp>>

probeRetries == 3

\* initializeApi: the counts test is caught on its own; the search test
\* runs under retry(..., 3); the outer catch logs and does not rethrow
initializeApi(r) == IF r.status = "raised" THEN "resolved" ELSE "resolved"

\* lines 79-86: await lkqApi.initializeApi() inside try/catch that rethrows
InitializeApi ==
  /\ ses.pc = "api"
  /\ \E fails \in [1..(probeRetries + 1) -> BOOLEAN] :
       LET r == retry([n \in DOMAIN fails |-> Outcome(fails[n], n)],
                      [n \in DOMAIN fails |-> 0], probeRetries)
       IN ses' = [ses EXCEPT !.pc = initializeApi(r),
                             !.probe = IF r.status = "raised" THEN "failed" ELSE "ok"]
  /\ UNCHANGED <<rt, col, enr, scr, api, db, job, mp>>

(***************************************************************************)
(* LkqScraper.scrape(categories, {maxProducts, fetchDetails,               *)
(* usePresetUrls}).                                                        *)
(*                                                                         *)
(* scr.pc: "init" at the entry, "loop" at the head of the for loop over    *)
(* the inputs (scr.idx the next input), "collecting" while the input's     *)
(* fetchProductsBy... runs, "enriching" while its fetchProductDetails      *)
(* runs, "done" after the return, "raised" when scrape rejected.           *)
(* scr.started lists the inputs whose collection was started, scr.log how  *)
(* each finished collection ended.                                         *)
(***************************************************************************)
CategoryName == "Alternator"
Url == "https://www.lkqonline.com/api/catalog/0/product?skip=0&take=50"
EmptyUrl == ""

\* category.startsWith('http')
StartsWithHttp(x) == x = Url

\* the argument lists scrape is called with: at most two inputs, each a
\* category name or a literal URL
CallerInputs ==
  {<<>>, <<CategoryName>>, <<Url>>, <<CategoryName, CategoryName>>,
   <<CategoryName, Url>>, <<Url, CategoryName>>, <<Url, Url>>}

\* the values of config.scrapers.lkq.categoryUrls: at most two preset
\* URLs, one of which may be an empty entry
PresetUrls ==
  {<<>>, <<Url>>, <<EmptyUrl>>, <<Url, Url>>, <<Url, EmptyUrl>>, <<EmptyUrl, Url>>}

SeqsUpTo(S, n) == UNION {[1..k -> S] : k \in 0..n}

ScrIdle ==
  [pc |-> "idle", categoryList |-> <<>>, usePresetUrls |-> FALSE, categoryUrls |-> <<>>,
   maxProducts |-> 0, fetchDetails |-> FALSE, idx |-> 1, allProducts |-> <<>>,
   started |-> <<>>, log |-> <<>>, result |-> <<>>]

\* the list the for loop runs over: config.scrapers.lkq.categoryUrls when
\* usePresetUrls is set and the list is not empty, else categoryList
Inputs(sc) ==
  IF sc.usePresetUrls /\ Len(sc.categoryUrls) > 0 THEN sc.categoryUrls ELSE sc.categoryList

\* which function collects input x
EntryOf(sc, x) ==
  IF sc.usePresetUrls /\ Len(sc.categoryUrls) > 0 THEN "url"
  ELSE IF StartsWithHttp(x) THEN "url" ELSE "category"

\* lines 409-418: an empty category list returns [] at once; otherwise
\* initialize() is awaited, with cookies configured or not
ScrapeInitialize ==
  /\ scr.pc = "init"
  /\ IF Len(scr.categoryList) = 0
     THEN /\ scr' = [scr EXCEPT !.pc = "done", !.result = <<>>]
          /\ ses' = ses
     ELSE /\ scr' = [scr EXCEPT !.pc = "initializing"]
          /\ \E cookies \in {"", "configured"} : ses' = SesStart(cookies)
  /\ UNCHANGED <<rt, col, enr, api, db, job, mp>>

\* initialize() has settled: a rejection reaches the outer catch of scrape,
\* which rethrows; otherwise scrape goes on to its inputs
ScrapeInitialized ==
  /\ scr.pc = "initializing"
  /\ ses.pc \in {"resolved", "rejected"}
  /\ scr' = [scr EXCEPT !.pc = IF ses.pc = "rejected" THEN "raised" ELSE "loop"]
  /\ ses' = SesIdle
  /\ UNCHANGED <<rt, col, enr, api, db, job, mp>>

\* the head of one iteration of the for loop: the budget check, then the
\* call of fetchProductsByUrl / fetchProductsByCategory, up to its first
\* await.  fetchProductsByUrl throws 'URL is required' for an empty url
\* before its try block, and scrape has no handler around the call but its
\* outer catch, which rethrows.
RemainingProductsWhole(sc) == sc.maxProducts

\* const remainingProducts = maxProducts - allProducts.length
RemainingProducts(sc) == sc.maxProducts - Len(sc.allProducts)

ScrapeNextInput ==
  /\ scr.pc = "loop"
  /\ scr.idx <= Len(Inputs(scr))
  /\ LET x == Inputs(scr)[scr.idx]
         remainingProducts == RemainingProducts(scr)
     IN IF remainingProducts <= 0
        THEN /\ scr' = [scr EXCEPT !.pc = "map"]
             /\ col' = col
        ELSE IF EntryOf(scr, x) = "url" /\ x = EmptyUrl
        THEN /\ scr' = [scr EXCEPT !.pc = "raised", !.started = Append(@, scr.idx)]
             /\ col' = col
        ELSE /\ scr' = [scr EXCEPT !.pc = "collecting", !.started = Append(@, scr.idx)]
             /\ col' = ColStart(EntryOf(scr, x), scr.idx, ListingSize, remainingProducts)
  /\ UNCHANGED <<rt, enr, ses, api, db, job, mp>>

SkipInputBreaks(sc) == [sc EXCEPT !.pc = "map"]

\* if (products.length === 0) { ...; continue; }
SkipInput(sc) == [sc EXCEPT !.pc = "loop", !.idx = @ + 1]

\* an entry of scr.log: the input, the state its pagination ended in, the
\* number of raw items fetched before trimming and the list returned
Collected(c, idx) ==
  [idx |-> idx, entry |-> c.entry, state |-> ColState(c),
   fetched |-> Len(c.allProducts), products |-> c.result]

\* the collection returned: skip an empty result, else enrich or accumulate
ScrapeCollected ==
  /\ scr.pc = "collecting"
  /\ col.pc = "returned"
  /\ LET products == col.result
         logged == [scr EXCEPT !.log = Append(@, Collected(col, scr.idx))]
     IN IF Len(products) = 0
        THEN /\ scr' = SkipInput(logged)
             /\ enr' = enr
        ELSE IF scr.fetchDetails
        THEN /\ scr' = [logged EXCEPT !.pc = "enriching"]
             /\ enr' = EnrStart(products, parallelRequests)
        ELSE /\ scr' = [logged EXCEPT !.pc = "loop", !.idx = @ + 1,
                                      !.allProducts = @ \o products]
             /\ enr' = enr
  /\ col' = ColIdle
  /\ UNCHANGED <<rt, ses, api, db, job, mp>>

\* fetchProductDetails returned: allProducts = [...allProducts, ...productsWithDetails]
ScrapeEnriched ==
  /\ scr.pc = "enriching"
  /\ enr.pc = "returned"
  /\ scr' = [scr EXCEPT !.pc = "loop", !.idx = @ + 1, !.allProducts = @ \o enr.result]
  /\ enr' = EnrIdle
  /\ UNCHANGED <<rt, col, ses, api, db, job, mp>>

\* after the loop: return this.mapProducts(allProducts)
ScrapeFinish ==
  /\ \/ scr.pc = "map"
     \/ scr.pc = "loop" /\ scr.idx > Len(Inputs(scr))
  /\ scr' = [scr EXCEPT !.pc = "done", !.result = mapProducts(scr.allProducts)]
  /\ UNCHANGED <<rt, col, enr, ses, api, db, job, mp>>

(***************************************************************************)
(* retry() on its own: rt.pc "ready" before the call, "settled" after.     *)
(***************************************************************************)
RtIdle ==
  [pc |-> "idle", maxRetries |-> 0, fails |-> <<>>, jitter |-> <<>>,
   out |-> [status |-> "none", value |-> Undefined, events |-> <<>>, delays |-> <<>>]]

RetryRun ==
  /\ rt.pc = "ready"
  /\ rt' = [rt EXCEPT !.pc = "settled",
                      !.out = retry([n \in DOMAIN rt.fails |-> Outcome(rt.fails[n], n)],
                                    rt.jitter, rt.maxRetries)]
  /\ UNCHANGED <<col, enr, scr, ses, api, db, job, mp>>

(***************************************************************************)
(* One call of the catalogue client: makeApiRequest with its log lines and *)
(* the error it rejects with, and getSearchResults around it.              *)
(*                                                                         *)
(* A header value is a sequence of characters.  api.headers are the Cookie *)
(* and the security-token header the request is sent with (the hardcoded   *)
(* ones, or those of customHeaders, which are spread over them), api.plan  *)
(* the upstream answers to the successive requests, api.run what the call  *)
(* did, api.ref what the same call does with the hardcoded headers,        *)
(* api.out how getSearchResults settled.                                   *)
(***************************************************************************)
MaxSecretLen == 2

Strs == UNION {[1..k -> {"a", "b"}] : k \in 1..MaxSecretLen}

\* the Cookie and XvPW5hYbpt-* entries of options.headers
HardcodedHeaders == [Cookie |-> <<"a">>, Token |-> <<"a">>]

\* ...customHeaders
CustomHeaders == {[Cookie |-> c, Token |-> t] : c \in Strs, t \in Strs}

NoHeaders == [Cookie |-> <<>>, Token |-> <<>>]

\* sanitizedHeaders: the Cookie and every XvPW5hYbpt header replaced by a
\* marker that carries the length of the value
sanitizedHeaders(headers) ==
  [Cookie |-> <<"[COOKIE HIDDEN - LENGTH]", Len(headers.Cookie)>>,
   Token |-> <<"[TOKEN HIDDEN - LENGTH]", Len(headers.Token)>>]

\* the lines makeApiRequest logs before axios is called
requestLogBefore(headers) ==
  << <<"debug", "Using cookies (length)", Len(headers.Cookie)>>,
     <<"info", "Making API request to", "fullUrl">>,
     <<"debug", "Request headers", sanitizedHeaders(headers)>> >>

\* the lines makeApiRequest logs once axios has settled with resp
requestLogAfter(headers, resp) ==
  IF resp.status = 0
  THEN << <<"error", "API request failed", "message">> >>
  ELSE IF ~validateStatus(resp.status)
  THEN << <<"debug", "Response headers", resp.contentType>>,
          <<"error", "Failed URL", "fullUrl">>,
          <<"error", "API request failed", "message, status, response">> >>
  ELSE IF IsHtml(resp)
  THEN << <<"debug", "Response status", resp.status>>,
          <<"error", "Received HTML response instead of JSON", resp.body.kind>>,
          <<"error", "API request failed", "message">> >>
  ELSE << <<"debug", "Response status", resp.status>>,
          <<"debug", "API request succeeded", resp.status>> >>
       \o (IF resp.status = 400 /\ ~Truthy(resp.body)
           THEN << <<"error", "Received 400 Bad Request with empty response body", 400>>,
                   <<"debug", "Full request details", sanitizedHeaders(headers)>> >>
           ELSE <<>>)

requestLog(headers, resp) == requestLogBefore(headers) \o requestLogAfter(headers, resp)

\* the error makeApiRequest rejects with: the error axios threw, whose
\* config is the request configuration, headers included (throw error), or
\* the Error thrown for an HTML answer
requestError(headers, resp) ==
  IF resp.status = 0 \/ ~validateStatus(resp.status)
  THEN [message |-> "transport", config |-> headers]
  ELSE IF IsHtml(resp)
       THEN [message |-> "html", config |-> NoHeaders]
       ELSE [message |-> "none", config |-> NoHeaders]

apiCall(headers, resp) ==
  [result |-> makeApiRequest(resp), log |-> requestLog(headers, resp),
   error |-> requestError(headers, resp)]

NoRun ==
  [result |-> [ok |-> FALSE, error |-> "none"], log |-> <<>>,
   error |-> [message |-> "none", config |-> NoHeaders]]

NoOut == [status |-> "none", value |-> Undefined, events |-> <<>>, delays |-> <<>>]

ApiIdle ==
  [pc |-> "idle", call |-> "none", plan |-> <<>>, headers |-> HardcodedHeaders,
   run |-> NoRun, ref |-> NoRun, out |-> NoOut]

\* the answers upstream may give to one request
ApiResponses ==
  {JsonPage(1, 0, 1, NoCount), NoResponse, ServerError, HtmlPage, HtmlDoctype,
   Html400, Html503, Empty400, BadJson}

\* makeApiRequest('', params, 'GET', customHeaders)
ApiRequest ==
  /\ api.pc = "ready"
  /\ api.call = "makeApiRequest"
  /\ api' = [api EXCEPT !.pc = "settled",
                        !.run = apiCall(api.headers, api.plan[1]),
                        !.ref = apiCall(HardcodedHeaders, api.plan[1])]
  /\ UNCHANGED <<rt, col, enr, scr, ses, db, job, mp>>

\* getSearchResults(category, skip, take)
ApiSearch ==
  /\ api.pc = "ready"
  /\ api.call = "getSearchResults"
  /\ api' = [api EXCEPT !.pc = "settled", !.out = getSearchResults(api.plan)]
  /\ UNCHANGED <<rt, col, enr, scr, ses, db, job, mp>>

(***************************************************************************)
(* Storage: storeScrapedData(source, data) on the parts collection.        *)
(*                                                                         *)
(* An item is [partNumber, named]: partNumber "" stands for an item        *)
(* without a part number, named tells whether it carries the required      *)
(* name.  db.store is the collection, a sequence of documents              *)
(* [partNumber, source, named] in the order of their creation; db.calls    *)
(* counts the calls made; db.source and db.batch are the arguments of the  *)
(* last call, db.keysBefore the keys stored before it, db.repeated whether *)
(* it stored the batch of the call before it again, db.result what it      *)
(* returned.                                                               *)
(***************************************************************************)
MaxStoreCalls == 3

PartNumbers == {"P1", "P2"}

\* enum: ['lkq', 'other-source']
Sources == {"lkq", "other-source"}

\* the parts with and without the required name, and an item without a
\* part number
Items ==
  {[partNumber |-> pn, named |-> nm] : pn \in PartNumbers, nm \in BOOLEAN}
    \cup {[partNumber |-> "", named |-> TRUE]}

\* the batches of at most two items
Batches == SeqsUpTo(Items, 2)

KeysOf(store) == {<<store[k].partNumber, store[k].source>> : k \in DOMAIN store}

findNothing(store, partNumber, source) == 0

\* Part.findOne({ partNumber, source }): the position of the first
\* matching document, 0 when there is none
findOne(store, partNumber, source) ==
  IF \E k \in DOMAIN store : store[k].partNumber = partNumber /\ store[k].source = source
  THEN CHOOSE k \in DOMAIN store :
         /\ store[k].partNumber = partNumber /\ store[k].source = source
         /\ \A j \in 1..(k - 1) :
              ~(store[j].partNumber = partNumber /\ store[j].source = source)
  ELSE 0

\* Part.create(item): the schema requires partNumber and name, and the
\* unique index on (partNumber, source) rejects a second document of a key
createAccepted(store, item, source) ==
  /\ item.partNumber # ""
  /\ item.named
  /\ <<item.partNumber, source>> \notin KeysOf(store)

NoResult == [total |-> 0, created |-> 0, updated |-> 0, failed |-> 0, errors |-> <<>>]

\* for (const item of data) { ... }: update the document found, else
\* create one; an error of either is counted and the loop goes on
RECURSIVE storeLoop(_, _, _, _)

\* result.failed++; result.errors.push({ partNumber, error })
Failed(result, item) ==
  [result EXCEPT !.failed = @ + 1, !.errors = Append(@, item.partNumber)]

catchItemBreaks(store, source, rest, item, result) ==
  [store |-> store, result |-> Failed(result, item)]

\* the catch inside the loop body: the error is counted and the loop goes
\* on with the next item
catchItem(store, source, rest, item, result) ==
  storeLoop(store, source, rest, Failed(result, item))

storeLoop(store, source, data, result) ==
  IF data = <<>> THEN [store |-> store, result |-> result]
  ELSE LET item == Head(data)
           existingPart == findOne(store, item.partNumber, source)
       IN IF existingPart # 0
          THEN storeLoop([store EXCEPT ![existingPart] =
                            [partNumber |-> item.partNumber, source |-> source,
                             named |-> item.named]],
                         source, Tail(data), [result EXCEPT !.updated = @ + 1])
          ELSE IF createAccepted(store, item, source)
          THEN storeLoop(Append(store, [partNumber |-> item.partNumber, source |-> source,
                                        named |-> item.named]),
                         source, Tail(data), [result EXCEPT !.created = @ + 1])
          ELSE catchItem(store, source, Tail(data), item, result)

DbIdle ==
  [pc |-> "idle", store |-> <<>>, calls |-> 0, source |-> "none", batch |-> <<>>,
   keysBefore |-> {}, repeated |-> FALSE, result |-> NoResult, procs |-> <<>>]

\* storeScrapedData(source, data) without a jobId
StoreScrapedData ==
  /\ db.pc = "open"
  /\ db.calls < MaxStoreCalls
  /\ \E source \in Sources : \E data \in Batches :
       LET done == storeLoop(db.store, source, data, [NoResult EXCEPT !.total = Len(data)])
       IN db' = [db EXCEPT !.store = done.store, !.calls = @ + 1,
                          !.source = source, !.batch = data,
                          !.keysBefore = KeysOf(db.store),
                          !.repeated = (db.calls > 0 /\ source = db.source /\ data = db.batch),
                          !.result = done.result]
  /\ UNCHANGED <<rt, col, enr, scr, ses, api, job, mp>>

(***************************************************************************)
(* Concurrent calls of storeScrapedData on one collection.  The body of    *)
(* the loop awaits twice: Part.findOne, then Part.findByIdAndUpdate or     *)
(* Part.create; between the two another call may run.  db.procs[p] is the  *)
(* p-th call: its batch, the index i of the item it is at, pc "find"       *)
(* before the findOne of that item, "write" before the write that follows  *)
(* (existingPart the position findOne answered, 0 for none), "done" after  *)
(* the loop, and its result.                                               *)
(***************************************************************************)
StoreProc(data) ==
  [pc |-> "find", batch |-> data, i |-> 1, existingPart |-> 0,
   result |-> [NoResult EXCEPT !.total = Len(data)]]

\* const existingPart = await Part.findOne({ partNumber, source })
StoreFind ==
  /\ db.pc = "concurrent"
  /\ \E p \in DOMAIN db.procs :
       LET pr == db.procs[p]
       IN /\ pr.pc = "find"
          /\ db' = IF pr.i > Len(pr.batch)
                    THEN [db EXCEPT !.procs[p].pc = "done"]
                    ELSE [db EXCEPT !.procs[p].pc = "write",
                                    !.procs[p].existingPart =
                                      findOne(db.store, pr.batch[pr.i].partNumber, db.source)]
  /\ UNCHANGED <<rt, col, enr, scr, ses, api, job, mp>>

\* await Part.findByIdAndUpdate(existingPart._id, item) or
\* await Part.create(item), on the collection as it is by now
StoreWrite ==
  /\ db.pc = "concurrent"
  /\ \E p \in DOMAIN db.procs :
       LET pr == db.procs[p]
           item == pr.batch[pr.i]
           doc == [partNumber |-> item.partNumber, source |-> db.source, named |-> item.named]
       IN /\ pr.pc = "write"
          /\ db' = IF pr.existingPart # 0
                    THEN [db EXCEPT !.store[pr.existingPart] = doc,
                                    !.procs[p].result.updated = @ + 1,
                                    !.procs[p].pc = "find", !.procs[p].i = @ + 1]
                    ELSE IF createAccepted(db.store, item, db.source)
                    THEN [db EXCEPT !.store = Append(@, doc),
                                    !.procs[p].result.created = @ + 1,
                                    !.procs[p].pc = "find", !.procs[p].i = @ + 1]
                    ELSE [db EXCEPT !.procs[p].result = Failed(@, item),
                                    !.procs[p].pc = "find", !.procs[p].i = @ + 1]
  /\ UNCHANGED <<rt, col, enr, scr, ses, api, job, mp>>

(***************************************************************************)
(* Scraper jobs: the ScraperJob collection, the start request of the HTTP  *)
(* API (runLkqScraper), the command line script (main of                   *)
(* scripts/run-lkq-scraper.js) and the status lookup                       *)
(* (getScraperJobStatus).  job.clock is the value of Date.now(), job.docs  *)
(* the status of the document of each jobId ("absent" when the collection  *)
(* holds none), job.runs the runs started so far with their position, the  *)
(* HTTP responses sent for them and whether their pipeline's error was     *)
(* logged,                                                                 *)
(* job.issued the identifiers the HTTP API has answered with, job.answer   *)
(* the last answer of the status lookup.                                   *)
(***************************************************************************)
MaxClock == 2
MaxRuns == 2

\* Date.now().toString()
JobIds == 1..MaxClock

Statuses == {"pending", "running", "completed", "failed"}

NoAnswer == [id |-> 0, issued |-> FALSE, code |-> 0, status |-> "none"]

JobIdle ==
  [pc |-> "idle", clock |-> 1, docs |-> [id \in JobIds |-> "absent"], runs |-> <<>>,
   issued |-> {}, answer |-> NoAnswer]

\* ScraperJob.create({ jobId, ... status }): the unique index on jobId
\* rejects a second document of an identifier
createScraperJob(docs, jobId, status) ==
  IF docs[jobId] = "absent"
  THEN [ok |-> TRUE, docs |-> [docs EXCEPT ![jobId] = status]]
  ELSE [ok |-> FALSE, docs |-> docs]

\* ScraperJob.findOneAndUpdate({ jobId }, { status }): without the upsert
\* option nothing is written when no document matches
findOneAndUpdate(docs, jobId, status) ==
  IF docs[jobId] = "absent" THEN docs ELSE [docs EXCEPT ![jobId] = status]

\* ScraperJob.findOne({ jobId })
getScraperJob(docs, jobId) == docs[jobId]

\* the clock advances
Tick ==
  /\ job.pc = "open"
  /\ job.clock < MaxClock
  /\ job' = [job EXCEPT !.clock = @ + 1]
  /\ UNCHANGED <<rt, col, enr, scr, ses, api, db, mp>>

\* the jobId of a request that was answered before one was generated
NoJobId == 0

\* res.status(code).json(...)
Respond(run, code) == [run EXCEPT !.responses = Append(@, code)]

catchPipelineResponds(run) == Respond([run EXCEPT !.pc = "done", !.logged = TRUE], 500)

\* the catch around the pipeline (lines 71-74): the error is logged
catchPipeline(run) == [run EXCEPT !.pc = "done", !.logged = TRUE]

\* runLkqScraper up to its first await: without a query the request is
\* answered 400; otherwise the jobId is taken from the clock, the 202
\* response carries it and then lkqScraper.scrape is called
RunLkqScraper ==
  /\ job.pc = "open"
  /\ Len(job.runs) < MaxRuns
  /\ \E query \in BOOLEAN :
       IF ~query
       THEN job' = [job EXCEPT !.runs =
                      Append(@, Respond([entry |-> "http", jobId |-> NoJobId, pc |-> "done",
                                         responses |-> <<>>, logged |-> FALSE], 400))]
       ELSE job' = [job EXCEPT !.runs =
                      Append(@, [Respond([entry |-> "http", jobId |-> job.clock,
                                          pc |-> "respond", responses |-> <<>>, logged |-> FALSE], 202)
                                   EXCEPT !.pc = "scrape"]),
                               !.issued = @ \cup {job.clock}]
  /\ UNCHANGED <<rt, col, enr, scr, ses, api, db, mp>>

\* main of the script up to createScraperJob
ScriptMain ==
  /\ job.pc = "open"
  /\ Len(job.runs) < MaxRuns
  /\ job' = [job EXCEPT !.runs = Append(@, [entry |-> "script", jobId |-> job.clock,
                                             pc |-> "create", responses |-> <<>>, logged |-> FALSE])]
  /\ UNCHANGED <<rt, col, enr, scr, ses, api, db, mp>>

\* await createScraperJob({ jobId, ..., status: 'pending' })
ScriptCreate ==
  /\ \E r \in DOMAIN job.runs :
       /\ job.runs[r].pc = "create"
       /\ LET made == createScraperJob(job.docs, job.runs[r].jobId, "pending")
          IN job' = [job EXCEPT !.docs = made.docs,
                                !.runs[r].pc = IF made.ok THEN "update" ELSE "catch"]
  /\ UNCHANGED <<rt, col, enr, scr, ses, api, db, mp>>

\* await updateScraperJob(jobId, { status: 'running', startTime })
ScriptRunning ==
  /\ \E r \in DOMAIN job.runs :
       /\ job.runs[r].pc = "update"
       /\ job' = [job EXCEPT !.docs = findOneAndUpdate(@, job.runs[r].jobId, "running"),
                             !.runs[r].pc = "scrape"]
  /\ UNCHANGED <<rt, col, enr, scr, ses, api, db, mp>>

\* await lkqScraper.scrape(...) settles: it resolves with products, with
\* none, or rejects.  The script stores only a non-empty list; the HTTP
\* handler stores whatever scrape resolved with and logs a rejection.
JobScrape ==
  /\ \E r \in DOMAIN job.runs : \E outcome \in {"products", "empty", "rejected"} :
       /\ job.runs[r].pc = "scrape"
       /\ job' = [job EXCEPT !.runs[r] =
                    IF job.runs[r].entry = "http"
                    THEN (IF outcome = "rejected" THEN catchPipeline(@)
                                                  ELSE [@ EXCEPT !.pc = "store"])
                    ELSE [@ EXCEPT !.pc = CASE outcome = "products" -> "store"
                                            [] outcome = "empty" -> "complete"
                                            [] OTHER -> "catch"]]
  /\ UNCHANGED <<rt, col, enr, scr, ses, api, db, mp>>

\* storeScrapedData(source, data, { jobId }) up to its loop: the job is
\* marked running
StoreJobBegin ==
  /\ \E r \in DOMAIN job.runs :
       /\ job.runs[r].pc = "store"
       /\ job' = [job EXCEPT !.docs = findOneAndUpdate(@, job.runs[r].jobId, "running"),
                             !.runs[r].pc = "storing"]
  /\ UNCHANGED <<rt, col, enr, scr, ses, api, db, mp>>

\* the rest of storeScrapedData: the job is marked completed and the
\* result returned, or a query of the job rejects, the outer catch marks
\* the job failed and rethrows
StoreJobEnd ==
  /\ \E r \in DOMAIN job.runs : \E ok \in BOOLEAN :
       /\ job.runs[r].pc = "storing"
       /\ job' = [job EXCEPT
                    !.docs = findOneAndUpdate(@, job.runs[r].jobId,
                                              IF ok THEN "completed" ELSE "failed"),
                    !.runs[r] =
                      IF job.runs[r].entry = "http"
                      THEN (IF ok THEN [@ EXCEPT !.pc = "done"] ELSE catchPipeline(@))
                      ELSE [@ EXCEPT !.pc = IF ok THEN "complete" ELSE "catch"]]
  /\ UNCHANGED <<rt, col, enr, scr, ses, api, db, mp>>

\* await updateScraperJob(jobId, { status: 'completed', ... }): the update
\* is made, or the call rejects and the catch of main is entered
ScriptCompleted ==
  /\ \E r \in DOMAIN job.runs : \E ok \in BOOLEAN :
       /\ job.runs[r].pc = "complete"
       /\ job' = IF ok
                 THEN [job EXCEPT !.docs = findOneAndUpdate(@, job.runs[r].jobId, "completed"),
                                  !.runs[r].pc = "disconnect"]
                 ELSE [job EXCEPT !.runs[r].pc = "catch"]
  /\ UNCHANGED <<rt, col, enr, scr, ses, api, db, mp>>

\* await mongoose.disconnect() at the end of the try block of main: when it
\* rejects, the catch of main is entered
ScriptDisconnect ==
  /\ \E r \in DOMAIN job.runs : \E ok \in BOOLEAN :
       /\ job.runs[r].pc = "disconnect"
       /\ job' = [job EXCEPT !.runs[r].pc = IF ok THEN "done" ELSE "catch"]
  /\ UNCHANGED <<rt, col, enr, scr, ses, api, db, mp>>

\* catch of main: updateScraperJob(jobId, { status: 'failed', ... })
ScriptCatch ==
  /\ \E r \in DOMAIN job.runs :
       /\ job.runs[r].pc = "catch"
       /\ job' = [job EXCEPT !.docs = findOneAndUpdate(@, job.runs[r].jobId, "failed"),
                             !.runs[r].pc = "done"]
  /\ UNCHANGED <<rt, col, enr, scr, ses, api, db, mp>>

\* getScraperJobStatus: 404 when getScraperJob finds no document, else 200
\* with the status of the document
GetScraperJobStatus ==
  /\ job.pc = "open"
  /\ \E id \in JobIds :
       LET found == getScraperJob(job.docs, id)
       IN job' = [job EXCEPT !.answer =
                    [id |-> id, issued |-> id \in job.issued,
                     code |-> IF found = "absent" THEN 404 ELSE 200,
                     status |-> found]]
  /\ UNCHANGED <<rt, col, enr, scr, ses, api, db, mp>>

(***************************************************************************)
(* The mapper in detail: mapProductToPart on one upstream item.  A         *)
(* JavaScript value is a record tagged with its type; an item is an object *)
(* whose keys are the fields the upstream sent.  The record fields         *)
(* sourceUrl, subcategory, specifications, quantity and metadata, which    *)
(* take no part in the properties below, are left out of the part.         *)
(***************************************************************************)
Absent == [t |-> "undefined"]
JsNull == [t |-> "null"]
Str(s) == [t |-> "string", s |-> s]
Num(n) == [t |-> "number", n |-> n]
Arr(a) == [t |-> "array", a |-> a]
Obj(o) == [t |-> "object", o |-> o]

\* the object without keys, and the object of one key
EmptyObj == Obj(<<>>)
Obj1(k, v) == Obj([key \in {k} |-> v])

\* !!v
IsTruthy(v) ==
  CASE v.t \in {"undefined", "null"} -> FALSE
    [] v.t = "string" -> v.s # ""
    [] v.t = "number" -> v.n # 0
    [] OTHER -> TRUE

\* a || b
Or(a, b) == IF IsTruthy(a) THEN a ELSE b

\* v[k] for a value that is not null or undefined
Prop(v, k) == IF v.t = "object" /\ k \in DOMAIN v.o THEN v.o[k] ELSE Absent

\* reading a property of null or undefined throws a TypeError
PropThrows(v) == v.t \in {"undefined", "null"}

Fitment == Obj([k \in {"SystemMake", "SystemYear"} |->
                  IF k = "SystemMake" THEN Str("Ford") ELSE Num(2015)])

Vehicle == Obj([k \in {"Make", "SourceVehicleImages"} |->
                  IF k = "Make" THEN Str("Ford") ELSE Arr(<<Str("http://img/2")>>)])

\* JSON.parse(text): the value of a well-formed text, or a SyntaxError
JsonParse(text) ==
  CASE text = "[fitment]" -> [ok |-> TRUE, v |-> Arr(<<Fitment>>)]
    [] text = "{vehicle}" -> [ok |-> TRUE, v |-> Vehicle]
    [] text = "{}" -> [ok |-> TRUE, v |-> EmptyObj]
    [] text = "null" -> [ok |-> TRUE, v |-> JsNull]
    [] OTHER -> [ok |-> FALSE, v |-> Absent]

parsedUncaught(field, initial) ==
  IF IsTruthy(field) /\ field.t = "string" THEN JsonParse(field.s).v ELSE initial

\* let x = initial; if (field && typeof field === 'string') { try { x =
\* JSON.parse(field) } catch { warn } }
parsed(field, initial) ==
  IF IsTruthy(field) /\ field.t = "string" /\ JsonParse(field.s).ok
  THEN JsonParse(field.s).v
  ELSE initial

explicitFields ==
  {"number", "id", "descriptionRetail", "description", "price",
   "sourceVehicleMake", "category", "availability", "ftcDisplay",
   "interchange", "sourceVehicleYear", "sourceVehicleModel",
   "mileage", "location", "yardCity", "yardState", "catalog",
   "isReman", "images", "pricing", "_salvageSourceVehicle", "fitmentJson"}

\* JSON.stringify(product)
stringify(product) == [t |-> "string", json |-> product]

NullResult == [kind |-> "null"]

\* the catch of mapProductToPart: a basic part with the raw data
minimalPart(product, message) ==
  [kind |-> "minimal",
   partNumber |-> Or(Or(Prop(product, "number"), Prop(product, "id")), Str("unknown")),
   name |-> Or(Or(Prop(product, "descriptionRetail"), Prop(product, "description")),
               Str("Unknown part")),
   source |-> Str("lkq"),
   otherParams |-> [k \in {"rawData", "mappingError"} |->
                      IF k = "rawData" THEN stringify(product) ELSE Str(message)]]

otherParamsNone(product) == <<>>

\* Object.keys(product).forEach: every key outside explicitFields is
\* copied; product.details, when truthy, is assigned once more
otherParamsOf(product) ==
  [k \in (DOMAIN product.o) \ explicitFields |-> product.o[k]]

conditionOf(ftcDisplay) ==
  CASE ftcDisplay = Str("Used") -> Str("used")
    [] ftcDisplay = Str("New") -> Str("new")
    [] ftcDisplay = Str("Refurbished") -> Str("refurbished")
    [] OTHER -> Str("unknown")

priceUnset(product) == Prop(product, "price")

\* price: product.price when present, else the first customerPrice, else 0
priceOf(product) ==
  IF Prop(product, "price") # Absent THEN Prop(product, "price")
  ELSE IF IsTruthy(Prop(product, "pricing")) /\ Len(Prop(product, "pricing").a) > 0
       THEN Or(Prop(Prop(product, "pricing").a[1], "customerPrice"), Num(0))
       ELSE Num(0)

\* mapProductToPart(product) with the fields of the part it builds
mapProductFields(product) ==
  IF ~IsTruthy(product) THEN NullResult
  ELSE
    LET sourceVehicle == parsed(Prop(product, "_salvageSourceVehicle"), EmptyObj)
        fitments == parsed(Prop(product, "fitmentJson"), Arr(<<>>))
        images == Or(Prop(product, "images"), Arr(<<>>))
        vehicleImages ==
          IF PropThrows(sourceVehicle) THEN <<>>
          ELSE IF Prop(sourceVehicle, "SourceVehicleImages").t = "array"
               THEN Prop(sourceVehicle, "SourceVehicleImages").a
               ELSE <<>>
    IN CASE fitments.t # "array" -> minimalPart(product, "fitments.map is not a function")
         [] images.t # "array" -> minimalPart(product, "images.map is not a function")
         [] PropThrows(sourceVehicle) -> minimalPart(product, "Cannot read properties of null")
         [] OTHER ->
           [kind |-> "full",
            partNumber |-> Or(Or(Prop(product, "number"), Prop(product, "id")), Str("")),
            name |-> Or(Or(Prop(product, "descriptionRetail"), Prop(product, "description")),
                        Str("")),
            description |-> Or(Prop(product, "description"), Str("")),
            price |-> priceOf(product),
            currency |-> Str("USD"),
            manufacturer |-> Or(Or(Prop(sourceVehicle, "Make"),
                                   Prop(product, "sourceVehicleMake")), Str("")),
            compatibility |->
              [j \in DOMAIN fitments.a |->
                 [make |-> Or(Prop(fitments.a[j], "SystemMake"), Str("")),
                  model |-> Or(Prop(fitments.a[j], "SystemModel"), Str("")),
                  year |-> Or(Prop(fitments.a[j], "SystemYear"), Num(0)),
                  trim |-> Str("")]],
            images |->
              [j \in DOMAIN images.a |-> Or(Prop(images.a[j], "url"), Str(""))]
                \o [j \in DOMAIN vehicleImages |-> vehicleImages[j]],
            source |-> Str("lkq"),
            inStock |-> Prop(product, "availability") \in
                          {Str("availableLocal"), Str("availableShip")},
            condition |-> conditionOf(Prop(product, "ftcDisplay")),
            otherParams |-> otherParamsOf(product)]

\* the values the upstream may send for each field of an item; Absent is
\* a field that was not sent
FieldValues ==
  [number |-> {Absent, Str("N1")},
   id |-> {Absent, Str("I1")},
   descriptionRetail |-> {Absent, Str("Alternator")},
   description |-> {Absent, Str("Alt, 12 V")},
   price |-> {Absent, Str("12.50")},
   pricing |-> {Absent, Arr(<<Obj1("customerPrice", Num(5))>>)},
   salvageSourceVehicle |-> {Absent, Str("not json"), Str("{vehicle}"), Str("null")},
   fitmentJson |-> {Absent, Str("not json"), Str("[fitment]"), Str("{}")},
   images |-> {Absent, Arr(<<Obj1("url", Str("http://img/1"))>>), Obj1("url", Str("http://img/1"))},
   availability |-> {Absent, Str("availableLocal"), Str("sold")},
   ftcDisplay |-> {Absent, Str("Used"), Str("Scrap")},
   brand |-> {Absent, Str("Bosch")},
   details |-> {Absent, Obj1("weight", Num(7))}]

\* the object with the fields that were sent
ItemOf(f) ==
  LET key(k) == IF k = "salvageSourceVehicle" THEN "_salvageSourceVehicle" ELSE k
      sent == {k \in DOMAIN f : f[k] # Absent}
  IN Obj([k \in {key(j) : j \in sent} |->
            IF k = "_salvageSourceVehicle" THEN f.salvageSourceVehicle ELSE f[k]])

Products ==
  {ItemOf([number |-> nu, id |-> id, descriptionRetail |-> dr, description |-> de,
           price |-> pr, pricing |-> pg, salvageSourceVehicle |-> sv,
           fitmentJson |-> fj, images |-> im, availability |-> av,
           ftcDisplay |-> ft, brand |-> br, details |-> dt]) :
     nu \in FieldValues.number, id \in FieldValues.id,
     dr \in FieldValues.descriptionRetail, de \in FieldValues.description,
     pr \in FieldValues.price, pg \in FieldValues.pricing,
     sv \in FieldValues.salvageSourceVehicle, fj \in FieldValues.fitmentJson,
     im \in FieldValues.images, av \in FieldValues.availability,
     ft \in FieldValues.ftcDisplay, br \in FieldValues.brand,
     dt \in FieldValues.details}

MapIdle == [pc |-> "idle", product |-> JsNull, part |-> NullResult]

\* one call of mapProductToPart
MapProduct ==
  /\ mp.pc = "ready"
  /\ mp' = [mp EXCEPT !.pc = "mapped", !.part = mapProductFields(mp.product)]
  /\ UNCHANGED <<rt, col, enr, scr, ses, api, db, job>>

(***************************************************************************)
(* Specifications.                                                         *)
(***************************************************************************)
InitRetry ==
  /\ \E m \in 0..MaxRetriesBound :
       \E f \in [1..(MaxRetriesBound + 2) -> BOOLEAN] :
         \E j \in [1..(MaxRetriesBound + 1) -> {0, MaxJitter}] :
           rt = [RtIdle EXCEPT !.pc = "ready", !.maxRetries = m, !.fails = f, !.jitter = j]
  /\ col = ColIdle
  /\ enr = EnrIdle
  /\ scr = ScrIdle
  /\ ses = SesIdle
  /\ api = ApiIdle
  /\ db = DbIdle
  /\ job = JobIdle
  /\ mp = MapIdle

NextRetry == RetryRun

SpecRetry == InitRetry /\ [][NextRetry]_vars

\* retry on an operation that fails k times in a row before it succeeds
\* (or never does), under bounds large enough for the delay to reach
\* maxDelay, with every jitter
InitBackoff ==
  /\ \E m \in 0..MaxBackoffRetries :
       \E k \in 0..(m + 1) :
         \E j \in [1..(MaxBackoffRetries + 1) -> {0, MaxJitter}] :
           rt = [RtIdle EXCEPT !.pc = "ready", !.maxRetries = m,
                               !.fails = [n \in 1..(m + 1) |-> n <= k],
                               !.jitter = j]
  /\ col = ColIdle
  /\ enr = EnrIdle
  /\ scr = ScrIdle
  /\ ses = SesIdle
  /\ api = ApiIdle
  /\ db = DbIdle
  /\ job = JobIdle
  /\ mp = MapIdle

SpecBackoff == InitBackoff /\ [][NextRetry]_vars

ItemLists ==
  {[j \in DOMAIN ks |-> [src |-> 1, pos |-> j - 1, kind |-> ks[j], malformed |-> FALSE,
                          details |-> None]]
     : ks \in SeqsUpTo(Kinds, MaxEnrichLen)}

InitEnrich ==
  /\ rt = RtIdle
  /\ col = ColIdle
  /\ \E products \in ItemLists : \E size \in 1..MaxConcurrency :
       enr = EnrStart(products, size)
  /\ scr = ScrIdle
  /\ ses = SesIdle
  /\ api = ApiIdle
  /\ db = DbIdle
  /\ job = JobIdle
  /\ mp = MapIdle

NextEnrich ==
  EnrichBegin \/ EnrichLaunch \/ EnrichDetail \/ EnrichJoin \/ EnrichReturn

SpecEnrich == InitEnrich /\ [][NextEnrich]_vars

\* largest finite maxProducts of a collect run in SpecCollect
MaxCollectProducts == 3

InitCollect ==
  /\ rt = RtIdle
  /\ \E entry \in {"category", "url"} :
       \E m \in 0..MaxCollectProducts \cup {Infinity} :
         col = ColStart(entry, 1, CatalogSize, m)
  /\ enr = EnrIdle
  /\ scr = ScrIdle
  /\ ses = SesIdle
  /\ api = ApiIdle
  /\ db = DbIdle
  /\ job = JobIdle
  /\ mp = MapIdle

NextCollect == CollectCounts \/ CollectPage \/ CollectReturn

SpecCollect == InitCollect /\ [][NextCollect]_vars

\* largest maxProducts of a collect run in SpecCollectFair
MaxFairProducts == 2

\* collect runs with a finite maxProducts on a listing that does not end
\* before the budget does, when every awaited call (an upstream request, a
\* delay) settles, so that the function always takes its next step
InitCollectFair ==
  /\ rt = RtIdle
  /\ \E entry \in {"category", "url"} :
       \E m \in 0..MaxFairProducts :
         col = ColStart(entry, 1, CatalogSize, m)
  /\ enr = EnrIdle
  /\ scr = ScrIdle
  /\ ses = SesIdle
  /\ api = ApiIdle
  /\ db = DbIdle
  /\ job = JobIdle
  /\ mp = MapIdle

SpecCollectFair == InitCollectFair /\ [][NextCollect]_vars /\ WF_vars(NextCollect)

\* a collect run over a listing of one page whose upstream requests are
\* counted for each failed page attempt
InitAttempts ==
  /\ rt = RtIdle
  /\ \E entry \in {"category", "url"} :
       col = [ColStart(entry, 1, PageSize(entry), Infinity) EXCEPT !.traced = TRUE]
  /\ enr = EnrIdle
  /\ scr = ScrIdle
  /\ ses = SesIdle
  /\ api = ApiIdle
  /\ db = DbIdle
  /\ job = JobIdle
  /\ mp = MapIdle

SpecAttempts == InitAttempts /\ [][NextCollect]_vars

\* one call of the catalogue client: makeApiRequest on one answer with any
\* Cookie and token header, or getSearchResults on any plan of answers
InitApi ==
  /\ rt = RtIdle
  /\ col = ColIdle
  /\ enr = EnrIdle
  /\ scr = ScrIdle
  /\ ses = SesIdle
  /\ db = DbIdle
  /\ job = JobIdle
  /\ mp = MapIdle
  /\ \/ \E resp \in ApiResponses : \E h \in CustomHeaders :
          api = [ApiIdle EXCEPT !.pc = "ready", !.call = "makeApiRequest",
                                !.plan = <<resp>>, !.headers = h]
     \/ \E plan \in [1..(retryAttempts + 1) -> ApiResponses] :
          api = [ApiIdle EXCEPT !.pc = "ready", !.call = "getSearchResults",
                                !.plan = plan]

NextApi == ApiRequest \/ ApiSearch

SpecApi == InitApi /\ [][NextApi]_vars

\* a sequence of storeScrapedData calls on an empty collection
InitStore ==
  /\ rt = RtIdle
  /\ col = ColIdle
  /\ enr = EnrIdle
  /\ scr = ScrIdle
  /\ ses = SesIdle
  /\ api = ApiIdle
  /\ db = [DbIdle EXCEPT !.pc = "open"]
  /\ job = JobIdle
  /\ mp = MapIdle

NextStore == StoreScrapedData

SpecStore == InitStore /\ [][NextStore]_vars

\* two calls of storeScrapedData for one source running concurrently on an
\* empty collection
InitStoreRace ==
  /\ rt = RtIdle
  /\ col = ColIdle
  /\ enr = EnrIdle
  /\ scr = ScrIdle
  /\ ses = SesIdle
  /\ api = ApiIdle
  /\ \E source \in Sources : \E d1 \in Batches : \E d2 \in Batches :
       db = [DbIdle EXCEPT !.pc = "concurrent", !.source = source,
                           !.procs = <<StoreProc(d1), StoreProc(d2)>>]
  /\ job = JobIdle
  /\ mp = MapIdle

NextStoreRace == StoreFind \/ StoreWrite

SpecStoreRace == InitStoreRace /\ [][NextStoreRace]_vars

\* the jobs of the HTTP API and of the script on one database
InitJob ==
  /\ rt = RtIdle
  /\ col = ColIdle
  /\ enr = EnrIdle
  /\ scr = ScrIdle
  /\ ses = SesIdle
  /\ api = ApiIdle
  /\ db = DbIdle
  /\ job = [JobIdle EXCEPT !.pc = "open"]
  /\ mp = MapIdle

NextJob ==
  \/ Tick \/ RunLkqScraper \/ ScriptMain \/ ScriptCreate \/ ScriptRunning
  \/ JobScrape \/ StoreJobBegin \/ StoreJobEnd \/ ScriptCompleted \/ ScriptDisconnect
  \/ ScriptCatch
  \/ GetScraperJobStatus

SpecJob == InitJob /\ [][NextJob]_vars

\* one call of the mapper on any item, or on no item at all
InitMap ==
  /\ rt = RtIdle
  /\ col = ColIdle
  /\ enr = EnrIdle
  /\ scr = ScrIdle
  /\ ses = SesIdle
  /\ api = ApiIdle
  /\ db = DbIdle
  /\ job = JobIdle
  /\ \E product \in Products \cup {JsNull, Absent} :
       mp = [MapIdle EXCEPT !.pc = "ready", !.product = product]

NextMap == MapProduct

SpecMap == InitMap /\ [][NextMap]_vars

MaxProductsValues == 0..MaxProductsBound \cup {Infinity}

\* the runs of scrape: caller inputs (category names and literal URLs), or
\* the preset URLs of the configuration, one of which may be empty
Init ==
  /\ rt = RtIdle
  /\ col = ColIdle
  /\ enr = EnrIdle
  /\ ses = SesIdle
  /\ api = ApiIdle
  /\ db = DbIdle
  /\ job = JobIdle
  /\ mp = MapIdle
  /\ \E m \in MaxProductsValues : \E fd \in BOOLEAN :
       \/ \E cl \in CallerInputs :
            scr = [ScrIdle EXCEPT !.pc = "init", !.categoryList = cl,
                                  !.categoryUrls = <<Url, Url>>,
                                  !.maxProducts = m, !.fetchDetails = fd]
       \/ \E cu \in PresetUrls :
            scr = [ScrIdle EXCEPT !.pc = "init", !.categoryList = <<CategoryName>>,
                                  !.usePresetUrls = TRUE, !.categoryUrls = cu,
                                  !.maxProducts = m, !.fetchDetails = fd]

Next ==
  \/ ScrapeInitialize
  \/ InitializeBegin
  \/ SessionLaunch
  \/ SessionNavigate
  \/ SessionCookies
  \/ SessionCatch
  \/ SessionFinally
  \/ InitializeCookies
  \/ InitializeApi
  \/ ScrapeInitialized
  \/ ScrapeNextInput
  \/ CollectCounts
  \/ CollectPage
  \/ CollectReturn
  \/ ScrapeCollected
  \/ EnrichBegin
  \/ EnrichLaunch
  \/ EnrichDetail
  \/ EnrichJoin
  \/ EnrichReturn
  \/ ScrapeEnriched
  \/ ScrapeFinish

Spec == Init /\ [][Next]_vars

(***************************************************************************)
(* Properties.                                                             *)
(***************************************************************************)
\* the <<src, pos>> of the items of a list that are not null entries
RECURSIVE RefsOf(_)
RefsOf(items) ==
  IF items = <<>> THEN <<>>
  ELSE (IF items[1].kind = "null" THEN <<>> ELSE <<<<items[1].src, items[1].pos>>>>)
         \o RefsOf(Tail(items))

\* the items of the pages a pagination run was answered with, in order
ItemsOf(c) ==
  Flatten([k \in DOMAIN c.requests |->
             IF c.requests[k].outcome = "page"
             THEN PageItems(c.src, c.requests[k].skip, c.requests[k].n)
             ELSE <<>>])

\* C1: for every maxProducts >= 0 scrape returns at most maxProducts
\* records, also when upstream pages carry more items than requested.
C1_AtMostMaxItems ==
  scr.pc = "done" => Len(scr.result) <= scr.maxProducts

\* C1 witness: a run that fetched more raw items than its budget and
\* returned exactly maxProducts records.
C1_Witness ==
  /\ scr.pc = "done"
  /\ scr.maxProducts >= 1
  /\ Len(scr.result) = scr.maxProducts
  /\ \E k \in DOMAIN scr.log : scr.log[k].fetched > Len(scr.log[k].products)

\* C2 (as claimed): the skip values of the page requests of one run start
\* at 0 and each next skip is the previous skip plus the previous take, so
\* no skip value is issued twice.
C2_Original ==
  LET R == col.requests
  IN Len(R) > 0 =>
       /\ R[1].skip = 0
       /\ \A k \in 1..(Len(R) - 1) : R[k + 1].skip = R[k].skip + R[k].take

\* C2 (amended): the skip values start at 0; the request after a non-empty
\* page has the previous skip plus the previous take, the request after a
\* failed attempt repeats the previous skip, and no request follows an
\* empty page.
C2_Amended ==
  LET R == col.requests
  IN Len(R) > 0 =>
       /\ R[1].skip = 0
       /\ \A k \in 1..(Len(R) - 1) :
            /\ R[k].outcome # "empty"
            /\ R[k].outcome = "page" => R[k + 1].skip = R[k].skip + R[k].take
            /\ R[k].outcome = "failed" => R[k + 1].skip = R[k].skip

\* C2 witness: a page, a failed attempt at the next skip, its retry
\* answered, and one more request after it.
C2_Witness ==
  LET R == col.requests
  IN /\ Len(R) >= 4
     /\ R[1].outcome = "page"
     /\ R[2].outcome = "failed"
     /\ R[3].outcome = "page"
     /\ R[4].skip > R[3].skip

\* the operation of the retry run fails on every invocation
AlwaysFails == \A n \in DOMAIN rt.fails : rt.fails[n]

\* the operation fails exactly k times and then succeeds
FailsThenSucceeds(k) ==
  /\ \A n \in 1..k : rt.fails[n]
  /\ ~rt.fails[k + 1]

\* C3 (as claimed): retry on an operation that always fails invokes it
\* exactly as many times as the bound passed and raises the last error.
C3_Original ==
  (rt.pc = "settled" /\ AlwaysFails) =>
    /\ Calls(rt.out) = rt.maxRetries
    /\ rt.out.status = "raised"
    /\ rt.out.value = <<"error", Calls(rt.out)>>

\* C3 (amended): retry on an operation that always fails invokes it exactly
\* maxRetries + 1 times (the first attempt and maxRetries retries) and then
\* raises the error of the last invocation unchanged.
C3_Amended ==
  (rt.pc = "settled" /\ AlwaysFails) =>
    /\ Calls(rt.out) = rt.maxRetries + 1
    /\ rt.out.status = "raised"
    /\ rt.out.value = <<"error", rt.maxRetries + 1>>

\* C3 witness: an always-failing operation retried with a bound of 2.
C3_Witness ==
  /\ rt.pc = "settled"
  /\ AlwaysFails
  /\ rt.maxRetries = 2
  /\ rt.out.status = "raised"

\* C4: for every k below the bound passed, retry on an operation that
\* fails exactly k times and then succeeds returns the value of the
\* successful invocation after exactly k backoff delays.
C4_SucceedsAfterK ==
  rt.pc = "settled" =>
    \A k \in 0..(rt.maxRetries - 1) :
      FailsThenSucceeds(k) =>
        /\ rt.out.status = "returned"
        /\ rt.out.value = <<"value", k + 1>>
        /\ Sleeps(rt.out) = k
        /\ Len(rt.out.delays) = k

\* C4 witness: two failures, then a success, under a bound of 3.
C4_Witness ==
  /\ rt.pc = "settled"
  /\ rt.maxRetries = 3
  /\ FailsThenSucceeds(2)
  /\ rt.out.status = "returned"
  /\ Sleeps(rt.out) = 2

\* hasMore as the specification derives it from a page (skip, take, n, count)
ExpectedHasMore(pg) ==
  IF pg.count # NoCount /\ pg.count # 0 THEN pg.skip + pg.take < pg.count
  ELSE pg.n = pg.take

\* C5: in both entry points, after a non-empty page requested with
\* (skip, take), hasMore is skip + take < total when the answer carries a
\* total, with take the size requested in that iteration, and is
\* (returned count = take) when it carries none.
C5_HasMore ==
  col.lastPage.n > 0 => col.hasMore = ExpectedHasMore(col.lastPage)

\* the first three page requests were answered with two full pages and a
\* short one, none carrying a count, and maxProducts did not limit take
ThreePages(c) ==
  LET R == c.requests
  IN /\ Len(R) >= 3
     /\ \A k \in 1..3 :
          /\ R[k].outcome = "page"
          /\ ~R[k].counted
          /\ R[k].take = PageSize(c.entry)
     /\ R[1].n = R[1].take
     /\ R[2].n = R[2].take
     /\ R[3].n > 0
     /\ R[3].n < R[3].take

\* C6: with no total in the answers and maxProducts not limiting, page
\* sizes [take, take, s] with 0 < s < take make the run issue exactly three
\* page requests, end with hasMore = FALSE and return all 2 * take + s items.
C6_ThreePages ==
  ThreePages(col) =>
    /\ Len(col.requests) = 3
    /\ ~col.hasMore
    /\ ColState(col) = "DONE"
    /\ Len(col.allProducts) = 2 * PageSize(col.entry) + col.requests[3].n
    /\ col.pc = "returned" => col.result = PageItems(col.src, 0, Len(col.allProducts))

\* C6 witness: such a run has returned.
C6_Witness ==
  /\ ThreePages(col)
  /\ col.pc = "returned"
  /\ Len(col.result) = 2 * PageSize(col.entry) + 1

\* C7: when the consecutive-error counter reaches the ceiling after some
\* pages were collected, the run returns exactly the items collected so
\* far, in order; it neither raises nor returns an empty list.
C7_AbortReturnsPartial ==
  (ColState(col) = "ABORTED" /\ Len(col.allProducts) > 0) =>
    /\ ~LoopCond(col)
    /\ col.pc # "raised"
    /\ col.pc = "returned" => (col.result = ItemsOf(col) /\ col.result # <<>>)

\* C7 witness: a run aborted after at least one page has returned.
C7_Witness ==
  /\ col.pc = "returned"
  /\ ColState(col) = "ABORTED"
  /\ Len(col.result) > 0
  /\ col.requests[1].outcome = "page"

\* the first of two category inputs failed on every page attempt up to the
\* ceiling
FirstCategoryExhausted ==
  /\ scr.categoryList = <<CategoryName, CategoryName>>
  /\ ~scr.usePresetUrls
  /\ Len(scr.log) >= 1
  /\ scr.log[1].state = "ABORTED"
  /\ scr.log[1].fetched = 0

\* C8: when every page attempt of the first of two categories fails up to
\* the ceiling, the first category contributes nothing, the second one is
\* still collected and its records are returned, and scrape does not raise.
C8_ExhaustedCategoryIsolated ==
  FirstCategoryExhausted =>
    /\ scr.log[1].products = <<>>
    /\ scr.pc # "raised"
    /\ scr.pc = "done" =>
         /\ scr.started = <<1, 2>>
         /\ Len(scr.log) = 2
         /\ [j \in DOMAIN scr.result |-> scr.result[j].ref] = RefsOf(scr.log[2].products)

\* C8 witness: such a run returned records of the second category.
C8_Witness ==
  /\ FirstCategoryExhausted
  /\ scr.pc = "done"
  /\ Len(scr.result) >= 1
  /\ \A j \in DOMAIN scr.result : scr.result[j].ref[1] = 2

\* C9: an exception raised by the collection of one input is caught by
\* scrape and the inputs after it are still processed: scrape never
\* rejects while inputs remain.
C9_InputFailureIsolated ==
  ~(scr.pc = "raised" /\ scr.idx < Len(Inputs(scr)))

\* C10: for every item list and every concurrency >= 1,
\* fetchProductDetails returns a list of the length of its input in which
\* every input item occurs exactly once, whatever detail calls fail.
C10_OneOutputPerInput ==
  enr.pc = "returned" =>
    /\ Len(enr.result) = Len(enr.products)
    /\ \A k \in DOMAIN enr.products :
         Cardinality({j \in DOMAIN enr.result :
                        /\ enr.result[j].src = enr.products[k].src
                        /\ enr.result[j].pos = enr.products[k].pos
                        /\ enr.result[j].kind = enr.products[k].kind}) = 1

\* C10 witness: three items in batches of two, one detail call answered
\* and one failed.
C10_Witness ==
  /\ enr.pc = "returned"
  /\ Len(enr.products) = 3
  /\ enr.size = 2
  /\ \E j \in DOMAIN enr.result : enr.result[j].details # None
  /\ \E j \in DOMAIN enr.result :
       enr.result[j].kind = "full" /\ enr.result[j].details = None

\* C11: an item whose detail call failed or returned nothing is output
\* unchanged, without a details key; every other item that carries an id
\* still had its call, in the same group and in later ones, and the items
\* whose call succeeded carry the details.
C11_FailedItemUnchanged ==
  (enr.pc = "returned" /\ enr.products # <<>>) =>
    /\ Len(enr.result) = Len(enr.products)
    /\ \A p \in DOMAIN enr.products :
         /\ enr.calls[p] \in {"ok", "failed", "nocall"}
         /\ NeedsCall(enr.products[p]) => enr.calls[p] \in {"ok", "failed"}
         /\ enr.calls[p] = "failed" =>
              (enr.result[p] = enr.products[p] /\ enr.result[p].details = None)
         /\ enr.calls[p] = "ok" =>
              enr.result[p] = [enr.products[p] EXCEPT !.details = "details"]

\* C11 witness: the first call of a group of two failed, the second one and
\* the call of the next group succeeded.
C11_Witness ==
  /\ enr.pc = "returned"
  /\ enr.size = 2
  /\ enr.calls = <<"failed", "ok", "ok">>
  /\ enr.result[1].details = None
  /\ enr.result[3].details = "details"

\* the group of `size` consecutive products the p-th product belongs to
GroupOf(p) == ((p - 1) \div enr.size) + 1

\* C12: at most `size` detail calls are in flight at any moment, and a
\* call of a later group has started only when every product of every
\* earlier group is done with.
C12_FanOutFanIn ==
  LET inflight == {p \in DOMAIN enr.calls : enr.calls[p] = "inflight"}
      started == {p \in DOMAIN enr.calls : enr.calls[p] \in {"inflight", "ok", "failed"}}
  IN /\ Cardinality(inflight) <= enr.size
     /\ \A p \in DOMAIN enr.calls : \A q \in started :
          GroupOf(p) < GroupOf(q) => enr.calls[p] \in {"ok", "failed", "nocall"}

\* C12 witness: the call of the second group is in flight after both
\* calls of the first group of two have settled.
C12_Witness ==
  /\ enr.pc = "await"
  /\ enr.size = 2
  /\ Len(enr.calls) = 3
  /\ enr.calls[1] \in {"ok", "failed"}
  /\ enr.calls[2] \in {"ok", "failed"}
  /\ enr.calls[3] = "inflight"

\* the raw items the finished collections of a scrape run returned, in order
CollectedItems == Flatten([k \in DOMAIN scr.log |-> scr.log[k].products])

\* C13: scrape never rejects because a detail call failed, an item could
\* not be mapped or a category ran into the failure ceiling (the only
\* rejection is the one of an empty URL), and when it returns, it returns
\* one record for every collected item that is not a null entry.
C13_BadItemOrCategoryIsolated ==
  /\ scr.pc = "raised" =>
       /\ scr.started # <<>>
       /\ Inputs(scr)[scr.started[Len(scr.started)]] = EmptyUrl
  /\ (scr.pc = "done" /\ scr.categoryList # <<>>) =>
       [j \in DOMAIN scr.result |-> scr.result[j].ref] = RefsOf(CollectedItems)

\* C13 witness: a run whose first category was exhausted, with a failed
\* detail call and an item whose mapping failed, still returned records.
C13_Witness ==
  /\ scr.pc = "done"
  /\ scr.fetchDetails
  /\ Len(scr.log) = 2
  /\ scr.log[1].state = "ABORTED"
  /\ \E j \in DOMAIN scr.result : scr.result[j].minimal
  /\ \E j \in DOMAIN scr.result :
       scr.result[j].details = None /\ KindAt(scr.result[j].ref[2]) = "full"
  /\ \E j \in DOMAIN scr.result : scr.result[j].details # None

\* C14: when the session acquisition failed and the connectivity test
\* failed on every attempt, the step of scrape that follows initialize()
\* is its rejection.
C14_RaisesWhenBothFail ==
  [][(/\ scr.pc = "initializing"
      /\ ses.pc = "resolved"
      /\ ses.failure # "none"
      /\ ses.probe = "failed"
      /\ scr' # scr) => scr'.pc = "raised"]_vars

IndicatesHtml(resp) ==
  resp.contentType = "text/html" \/ resp.body.kind \in {"doctype", "htmltag"}

AllAnswers(resp) == [n \in 1..(retryAttempts + 1) |-> resp]

\* C18: getSearchResults on an upstream that answers every request with an
\* empty 400 ends as it does on one that never answers: it rejects, after
\* as many requests.
C18_Empty400Raises ==
  (api.pc = "settled" /\ api.call = "getSearchResults" /\ api.plan = AllAnswers(Empty400)) =>
    /\ api.out.status = "raised"
    /\ Calls(api.out) = Calls(getSearchResults(AllAnswers(NoResponse)))

\* C19: what makeApiRequest logs and the error it rejects with are the
\* same for every value of the Cookie and of the security-token header.
C19_SecretsNotDisclosed ==
  (api.pc = "settled" /\ api.call = "makeApiRequest") =>
    /\ api.run.log = api.ref.log
    /\ api.run.error = api.ref.error

\* C20: the collection never holds two documents of one
\* (partNumber, source); a call that stores the batch of the call before it
\* again leaves the stored keys as they were and reports created = 0 and
\* every item whose key is stored as updated.
C20_IdempotentUpsert ==
  /\ \A j, k \in DOMAIN db.store :
       (db.store[j].partNumber = db.store[k].partNumber
          /\ db.store[j].source = db.store[k].source) => j = k
  /\ db.repeated =>
       /\ KeysOf(db.store) = db.keysBefore
       /\ db.result.created = 0
       /\ db.result.updated =
            Cardinality({n \in DOMAIN db.batch :
                           <<db.batch[n].partNumber, db.source>> \in db.keysBefore})

\* C20 witness: a batch of two new parts was stored twice; the second call
\* created nothing and updated both.
C20_Witness ==
  /\ db.repeated
  /\ db.calls = 2
  /\ Len(db.store) = 2
  /\ db.result.created = 0
  /\ db.result.updated = 2

\* C21: what a call of storeScrapedData returned has total = the length of
\* the batch, created + updated + failed = total and one errors entry per
\* failed item; and every item of the batch the schema accepts is stored
\* after the call, whatever failed before it in the batch.
C21_ResultAccountsForBatch ==
  db.calls > 0 =>
    /\ db.result.total = Len(db.batch)
    /\ db.result.created + db.result.updated + db.result.failed = db.result.total
    /\ Len(db.result.errors) = db.result.failed
    /\ \A n \in DOMAIN db.batch :
         (db.batch[n].partNumber # "" /\ db.batch[n].named) =>
           <<db.batch[n].partNumber, db.source>> \in KeysOf(db.store)

\* C21 witness: the first item of a batch failed and the second one was
\* created.
C21_Witness ==
  /\ db.calls = 1
  /\ Len(db.batch) = 2
  /\ ~db.batch[1].named
  /\ db.result.failed = 1
  /\ db.result.created = 1
  /\ db.result.errors = <<db.batch[1].partNumber>>

\* C22: a status lookup of an identifier that a start request has answered
\* with finds the job: it is answered with 200 and one of the four
\* statuses.
C22_IssuedJobIsFound ==
  job.answer.issued =>
    /\ job.answer.code = 200
    /\ job.answer.status \in Statuses

\* a field that holds a string JSON.parse rejects
Unparseable(product, k) ==
  /\ Prop(product, k).t = "string"
  /\ Prop(product, k).s # ""
  /\ ~JsonParse(Prop(product, k).s).ok

\* the item without its unparseable embedded documents
WithoutUnparseable(product) ==
  Obj([k \in {j \in DOMAIN product.o :
                ~(j \in {"fitmentJson", "_salvageSourceVehicle"} /\ Unparseable(product, j))}
         |-> product.o[k]])

\* C23: the mapper returns null exactly for an empty (falsy) item; an
\* embedded document that does not parse counts as absent, that is, the item
\* is mapped as it would be without that field; and a record that is not
\* the full one carries an identifier, a name, the source and the error
\* note.
C23_MapperNeverRaises ==
  mp.pc = "mapped" =>
    /\ mp.part.kind \in {"null", "minimal", "full"}
    /\ mp.part.kind = "null" <=> ~IsTruthy(mp.product)
    /\ IsTruthy(mp.product) =>
         /\ mp.part.kind = mapProductFields(WithoutUnparseable(mp.product)).kind
         /\ mp.part.kind = "full" =>
              mp.part = mapProductFields(WithoutUnparseable(mp.product))
    /\ mp.part.kind = "minimal" =>
         /\ IsTruthy(mp.part.partNumber)
         /\ IsTruthy(mp.part.name)
         /\ mp.part.source = Str("lkq")
         /\ IsTruthy(mp.part.otherParams["mappingError"])

\* C23 witness: an item whose fitment list does not parse was mapped to a
\* full record without compatibility entries.
C23_Witness ==
  /\ mp.pc = "mapped"
  /\ IsTruthy(mp.product)
  /\ Unparseable(mp.product, "fitmentJson")
  /\ mp.part.kind = "full"
  /\ mp.part.compatibility = <<>>

\* the fields the identifier and the name of a part are taken from
IdentityFields == {"number", "id", "descriptionRetail", "description"}

\* C24: an item that has none of the other fields is mapped to a full
\* record with price 0, currency USD, condition unknown and inStock false.
C24_DefaultsWhenAbsent ==
  (mp.pc = "mapped" /\ IsTruthy(mp.product) /\ DOMAIN mp.product.o \subseteq IdentityFields) =>
    /\ mp.part.kind = "full"
    /\ mp.part.price = Num(0)
    /\ mp.part.currency = Str("USD")
    /\ mp.part.condition = Str("unknown")
    /\ mp.part.inStock = FALSE

\* C24 witness: the item without any field was mapped to a full record.
C24_Witness ==
  /\ mp.pc = "mapped"
  /\ mp.product = EmptyObj
  /\ mp.part.kind = "full"
  /\ mp.part.price = Num(0)

\* the keys of the item that otherParams holds with the item's value
Preserved(product, part) ==
  {k \in DOMAIN product.o :
     k \in DOMAIN part.otherParams /\ part.otherParams[k] = product.o[k]}

\* C25 as stated: for every item, every key outside the explicitly
\* consumed fields is held by otherParams with the item's value.
C25_Original ==
  (mp.pc = "mapped" /\ IsTruthy(mp.product)) =>
    (DOMAIN mp.product.o) \ explicitFields \subseteq Preserved(mp.product, mp.part)

\* C25 amended: that holds for every item mapped to a full record; the
\* minimal record of an item whose mapping raised holds the whole item,
\* serialised, under otherParams.rawData instead.
C25_Amended ==
  (mp.pc = "mapped" /\ IsTruthy(mp.product)) =>
    /\ mp.part.kind = "full" =>
         /\ (DOMAIN mp.product.o) \ explicitFields \subseteq Preserved(mp.product, mp.part)
         /\ DOMAIN mp.part.otherParams = (DOMAIN mp.product.o) \ explicitFields
    /\ mp.part.kind = "minimal" =>
         mp.part.otherParams["rawData"] = stringify(mp.product)

\* C25 witness: a full record that holds two fields the mapper does not
\* consume.
C25_Witness ==
  /\ mp.pc = "mapped"
  /\ mp.part.kind = "full"
  /\ DOMAIN mp.part.otherParams = {"brand", "details"}
  /\ mp.part.otherParams["brand"] = Str("Bosch")

\* C26: the delay slept after the n-th failed attempt is
\* min(initialDelay * 2^(n-1) + jitter, maxDelay) with the jitter drawn for
\* it, which lies in 0..999, so it is at most maxDelay; attempts and delays
\* alternate, beginning and ending with an attempt.
C26_BackoffDelay ==
  rt.pc = "settled" =>
    /\ \A n \in DOMAIN rt.out.delays :
         /\ rt.jitter[n] \in 0..999
         /\ rt.out.delays[n] =
              (IF initialDelay * (2 ^ (n - 1)) + rt.jitter[n] <= maxDelay
               THEN initialDelay * (2 ^ (n - 1)) + rt.jitter[n]
               ELSE maxDelay)
         /\ rt.out.delays[n] <= maxDelay
    /\ \A i \in DOMAIN rt.out.events :
         rt.out.events[i] = (IF i % 2 = 1 THEN "call" ELSE "sleep")
    /\ rt.out.events # <<>> /\ rt.out.events[Len(rt.out.events)] = "call"
    /\ Len(rt.out.delays) = Sleeps(rt.out)
    /\ Sleeps(rt.out) = Calls(rt.out) - 1

\* C26 witness: six failures in a row; the first delay carries the jitter,
\* the sixth is cut to maxDelay, and the seventh, last attempt failed too
\* with no delay after it.
C26_Witness ==
  /\ rt.pc = "settled"
  /\ rt.maxRetries = 6
  /\ rt.out.status = "raised"
  /\ Len(rt.out.delays) = 6
  /\ rt.out.delays[1] = 1999
  /\ rt.out.delays[6] = maxDelay
  /\ Calls(rt.out) = 7

\* the failed page attempts since the last page with products
RECURSIVE FailuresSincePage(_)
FailuresSincePage(R) ==
  IF R = <<>> \/ R[Len(R)].outcome = "page" THEN 0
  ELSE (IF R[Len(R)].outcome = "failed" THEN 1 ELSE 0)
         + FailuresSincePage(SubSeq(R, 1, Len(R) - 1))

\* the last n page attempts all failed
LastFailed(R, n) ==
  /\ Len(R) >= n
  /\ \A i \in (Len(R) - n + 1)..Len(R) : R[i].outcome = "failed"

\* C27: the consecutive-error counter lies in 0..ceiling and is the number
\* of failed page attempts since the last page with products; the run is
\* ABORTED exactly when the last `ceiling` attempts all failed.
C27_ConsecutiveErrors ==
  col.pc \in {"loop", "returned"} =>
    /\ col.consecutiveErrors \in 0..maxRetries(col.entry)
    /\ col.consecutiveErrors = FailuresSincePage(col.requests)
    /\ ColState(col) = "ABORTED" <=> LastFailed(col.requests, maxRetries(col.entry))

\* C27 witness: a failure, a page, a failure and a second page: two
\* failures in all, which is the ceiling of the category entry, and the run
\* goes on.
C27_Witness ==
  /\ col.entry = "category"
  /\ Len(col.requests) = 4
  /\ col.requests[1].outcome = "failed"
  /\ col.requests[2].outcome = "page"
  /\ col.requests[3].outcome = "failed"
  /\ col.requests[4].outcome = "page"
  /\ col.consecutiveErrors = 0
  /\ ColState(col) # "ABORTED"

\* the number of items collected before the i-th page request
RECURSIVE CollectedBefore(_, _)
CollectedBefore(R, i) ==
  IF i <= 1 THEN 0 ELSE R[i - 1].n + CollectedBefore(R, i - 1)

C30_EmptyPageEnds ==
  \A i \in DOMAIN col.requests :
    col.requests[i].outcome = "empty" =>
      /\ i = Len(col.requests)
      /\ ~col.hasMore
      /\ ~LoopCond(col)
      /\ ColState(col) = "DONE"
      /\ col.consecutiveErrors = FailuresSincePage(SubSeq(col.requests, 1, i - 1))
      /\ col.pc = "returned" => col.result = ItemsOf(col)

\* C30 witness: a page with products, then an empty page, and the run has
\* returned the products of the first.
C30_Witness ==
  /\ col.pc = "returned"
  /\ Len(col.requests) = 2
  /\ col.requests[1].outcome = "page"
  /\ col.requests[2].outcome = "empty"
  /\ col.result # <<>>
  /\ Len(col.result) = col.requests[1].n

\* C29: a page attempt that was counted as a failure had its request sent
\* as many times as the retry policy allows: retryAttempts + 1.
C29_FailureAfterRetries ==
  col.traced =>
    \A i \in DOMAIN col.requests :
      col.requests[i].outcome = "failed" => col.requests[i].calls = retryAttempts + 1

\* C31: scrape starts the collection of an input with the budget
\* maxProducts minus the number of items accumulated so far, which is at
\* least one; once the accumulated items reach maxProducts no collection
\* runs, no further input is started and no pagination step is taken.
C31_BudgetPerInput ==
  /\ [](scr.pc = "collecting" =>
          /\ col.maxProducts = scr.maxProducts - Len(scr.allProducts)
          /\ col.maxProducts >= 1)
  /\ [](Len(scr.allProducts) >= scr.maxProducts =>
          /\ col.pc = "idle"
          /\ scr.pc \notin {"collecting", "enriching"})
  /\ [][Len(scr.allProducts) >= scr.maxProducts =>
          /\ scr'.started = scr.started
          /\ col' = col]_vars

\* C31 witness: the first of two inputs used up the budget, the loop was
\* left at the second input, which was never started, and scrape returned.
C31_Witness ==
  /\ scr.pc = "done"
  /\ Len(Inputs(scr)) = 2
  /\ scr.idx = 2
  /\ scr.started = <<1>>
  /\ scr.maxProducts >= 1
  /\ Len(scr.allProducts) = scr.maxProducts

\* C32: fetchProductDetails has paused once after every group that has a
\* successor before that successor's calls start, and not after the last
\* group: while group i is in flight i - 1 pauses were taken, and a run
\* over n groups returns after n - 1 pauses (none for an empty list).
C32_PacingBetweenGroups ==
  LET n == Len(enr.batches)
  IN /\ enr.pc = "await" => enr.pauses = enr.i - 1
     /\ enr.pc = "for" => enr.pauses = Min(enr.i - 1, n - 1)
     /\ enr.pc = "returned" => enr.pauses = IF enr.products = <<>> THEN 0 ELSE n - 1

\* C32 witness: a run over three groups returned after two pauses.
C32_Witness ==
  /\ enr.pc = "returned"
  /\ Len(enr.batches) = 3
  /\ enr.pauses = 2
  /\ Len(enr.result) = 3

\* C33: every start request has exactly one response from the moment it
\* was handled on, 400 when it carried no query and else the 202 with the
\* job identifier; the 202 is there while the pipeline of the request is
\* still running and stays the only response when the pipeline has failed.
C33_OneResponseBeforePipeline ==
  \A r \in DOMAIN job.runs :
    job.runs[r].entry = "http" =>
      /\ Len(job.runs[r].responses) = 1
      /\ job.runs[r].responses[1] = IF job.runs[r].jobId = NoJobId THEN 400 ELSE 202
      /\ job.runs[r].jobId # NoJobId => job.runs[r].jobId \in job.issued
      /\ job.runs[r].pc \in {"scrape", "store", "storing"} => job.runs[r].responses = <<202>>

\* C33 witness: a request without a query was answered 400, and the
\* pipeline of an accepted request has ended in the catch around it, which
\* logged the error.
C33_Witness ==
  /\ Len(job.runs) = 2
  /\ job.runs[1].responses = <<400>>
  /\ job.runs[2].entry = "http"
  /\ job.runs[2].pc = "done"
  /\ job.runs[2].responses = <<202>>
  /\ job.runs[2].logged

\* C34: every iteration of the pagination loop after which the loop is
\* entered again has added at least one item or has raised the
\* consecutive-error counter by one, staying below the ceiling; and a run
\* with a finite maxProducts, whose calls all settle, returns, its loop
\* having ended in DONE or ABORTED.
C34_CollectTerminates ==
  /\ [][(col.pc = "loop" /\ col'.pc = "loop") =>
          \/ ~LoopCond(col')
          \/ Len(col'.allProducts) > Len(col.allProducts)
          \/ /\ col'.consecutiveErrors = col.consecutiveErrors + 1
             /\ col'.consecutiveErrors < maxRetries(col.entry)]_vars
  /\ (col.pc \in {"counts", "loop"} /\ col.maxProducts < Infinity)
       ~> (col.pc = "returned" /\ ColState(col) \in {"DONE", "ABORTED"})

\* C34 witness: a run with a budget of two returned it in full after a
\* failed attempt, a page, another failed attempt and a second page.
C34_Witness ==
  LET R == col.requests
  IN /\ col.pc = "returned"
     /\ col.maxProducts = 2
     /\ Len(col.result) = 2
     /\ Len(R) = 4
     /\ R[1].outcome = "failed"
     /\ R[2].outcome = "page"
     /\ R[3].outcome = "failed"
     /\ R[4].outcome = "page"

\* the sum of the takes of the first k requests of R that were answered
\* with a non-empty page
RECURSIVE Covered(_, _)
Covered(R, k) ==
  IF k = 0 THEN 0
  ELSE Covered(R, k - 1) + (IF R[k].outcome = "page" THEN R[k].take ELSE 0)

\* C35: a page attempt is made at the current skip; a failed one leaves
\* skip as it was and, below the ceiling, is followed by one backoff delay,
\* so that the next attempt asks for the same skip; skip moves, by the
\* take of the request, exactly when the request was answered with a
\* non-empty page.  Hence each request starts where the pages answered so
\* far end: no range is passed over.
C35_FailureKeepsSkip ==
  /\ [][(col.pc = "loop" /\ Len(col'.requests) = Len(col.requests) + 1) =>
          LET q == col'.requests[Len(col'.requests)]
          IN /\ q.skip = col.skip
             /\ q.outcome = "failed" =>
                  /\ col'.skip = col.skip
                  /\ col'.backoffs = col.backoffs + (IF LoopCond(col') THEN 1 ELSE 0)
             /\ q.outcome = "page" =>
                  /\ q.n > 0
                  /\ col'.skip = col.skip + q.take
                  /\ col'.backoffs = col.backoffs
             /\ q.outcome = "empty" => col'.skip = col.skip]_vars
  /\ [](\A k \in DOMAIN col.requests :
          col.requests[k].skip = Covered(col.requests, k - 1))
  /\ [](col.skip = Covered(col.requests, Len(col.requests)))

\* C35 witness: the attempt after the first page failed, one backoff
\* delay was awaited and the next request asked for the same skip and was
\* answered, after which skip moved on.
C35_Witness ==
  LET R == col.requests
  IN /\ Len(R) = 3
     /\ R[1].outcome = "page"
     /\ R[2].outcome = "failed"
     /\ R[3].outcome = "page"
     /\ R[2].skip = R[1].take
     /\ R[3].skip = R[2].skip
     /\ col.backoffs = 1
     /\ col.skip = R[3].skip + R[3].take

\* item `out` is item `in`, unchanged or extended with its details
SameItem(out, in) == out = in \/ out = [in EXCEPT !.details = "details"]

\* C36: whichever detail call of a group settles first, the values of the
\* group stand at the positions of their products, the list built so far
\* is the enriched prefix of the input, and the list returned has, for
\* every i, the i-th input item at position i, unchanged or extended.
C36_OrderPreserved ==
  LET done == enr.productsWithDetails
  IN /\ enr.pc \in {"for", "await", "returned"} =>
          /\ Len(done) <= Len(enr.products)
          /\ \A p \in DOMAIN done : SameItem(done[p], enr.products[p])
     /\ enr.pc = "await" =>
          /\ Len(done) + Len(enr.batchResults) <= Len(enr.products)
          /\ \A j \in DOMAIN enr.batchResults :
               SameItem(enr.batchResults[j], enr.products[Len(done) + j])
     /\ enr.pc = "returned" =>
          /\ Len(enr.result) = Len(enr.products)
          /\ \A i \in DOMAIN enr.result : SameItem(enr.result[i], enr.products[i])

\* C36 witness: in a group of three products the call of the third one
\* has settled with details and the call of the second one has failed
\* while the call of the first one is still in flight.
C36_Witness ==
  /\ enr.pc = "await"
  /\ enr.size = 3
  /\ Len(enr.batchResults) = 3
  /\ enr.inflight = {1}
  /\ enr.calls = <<"inflight", "failed", "ok">>
  /\ enr.batchResults[3] = [enr.products[3] EXCEPT !.details = "details"]
  /\ enr.batchResults[2] = enr.products[2]
  /\ enr.batchResults[1] = enr.products[1]

\* the items both concurrent calls carry and the schema accepts
SharedItems ==
  {it \in Items :
     /\ it.partNumber # "" /\ it.named
     /\ \A p \in DOMAIN db.procs : \E k \in DOMAIN db.procs[p].batch : db.procs[p].batch[k] = it}

\* C37: when two concurrent calls whose batches hold the same new item
\* have both returned, the collection holds exactly one document of the
\* item's key and neither result lists the item as failed.
C37_ConcurrentUpsertsComplete ==
  (db.pc = "concurrent" /\ \A p \in DOMAIN db.procs : db.procs[p].pc = "done") =>
    \A it \in SharedItems :
      /\ Cardinality({k \in DOMAIN db.store : db.store[k].partNumber = it.partNumber}) = 1
      /\ \A p \in DOMAIN db.procs :
           \A e \in DOMAIN db.procs[p].result.errors :
             db.procs[p].result.errors[e] # it.partNumber

\* C38: the status of a job only moves forward: from pending to running,
\* completed or failed, from running to completed or failed, and a job
\* that is completed or failed keeps its status.
C38_StatusMovesForward ==
  [][\A id \in JobIds :
       /\ job.docs[id] \in {"completed", "failed"} => job'.docs[id] = job.docs[id]
       /\ job.docs[id] = "running" => job'.docs[id] # "pending"
       /\ job.docs[id] # "absent" => job'.docs[id] # "absent"]_vars

\* C39: any two runs that were given a job identifier, start requests of
\* the HTTP API or runs of the script, were given different identifiers.
C39_DistinctJobIds ==
  \A r1 \in DOMAIN job.runs : \A r2 \in DOMAIN job.runs :
    (r1 # r2 /\ job.runs[r1].jobId # NoJobId /\ job.runs[r2].jobId # NoJobId) =>
      job.runs[r1].jobId # job.runs[r2].jobId

\* the upstream requests sent for the page attempts of R at skip value s
RECURSIVE CallsAt(_, _)
CallsAt(R, s) ==
  IF R = <<>> THEN 0
  ELSE (IF R[1].skip = s THEN R[1].calls ELSE 0) + CallsAt(Tail(R), s)

====
